---------------------------- MODULE Spec2Model ----------------------------
(***************************************************************************)
(* A model of the knowledgequest retrieval store.                          *)
(*                                                                         *)
(*   - VectorDB (src/src/vector_db.py): the id allocator (_get_max_id,     *)
(*     _generate_id), insert, insert_batch, delete_by_ids and              *)
(*     clear_collection, over a Milvus collection that is modelled as the  *)
(*     sequence of its live rows.                                          *)
(*   - MarkdownSplitter (src/src/text_splitter.py): split_text and its     *)
(*     helpers, over documents that are sequences of heading and body      *)
(*     lines.                                                              *)
(*                                                                         *)
(* Specifications:                                                         *)
(*   Spec        one VectorDB process, every handler one atomic action,    *)
(*               plus process restarts (single writer);                    *)
(*   SpecReliable  Spec over a store whose calls never fail;               *)
(*   SpecFresh   bare _generate_id() calls on an empty collection;         *)
(*   SpecRace    two VectorDB processes on one collection, insert split    *)
(*               at its store calls, with or without a single-writer       *)
(*               discipline;                                               *)
(*   SpecDelete  delete_by_ids on id lists of up to MaxDeleteLen ids;      *)
(*   SpecSplit   MarkdownSplitter.split_text, one step per header section; *)
(*   SpecReset, SpecResplit  split_text on documents with named headings,  *)
(*               and called again on one splitter;                         *)
(*   SpecBatch, SpecSearch, SpecResults, SpecFacade, SpecIngest  one call  *)
(*               of insert_batch, search, query and split_file, the        *)
(*               facade's reading calls, and file ingestion;               *)
(*   SpecRetry   delete_by_ids repeated with one list;                     *)
(*   SpecChat    LLMChat constructions (src/src/llm_chat.py);              *)
(*   SpecApp     one VectorApp (src/src/app.py) from its construction on.  *)
(***************************************************************************)
EXTENDS Integers, Sequences, FiniteSets, TLC

(***************************************************************************)
(* Bounds of the model.                                                    *)
(***************************************************************************)
\* the largest id the allocator is let to hand out
MaxId == 3
\* the largest number of live rows of the collection
MaxRows == 3
\* the same in SpecReliable, where a scan is cut off only if the collection
\* may outgrow the scan limit
MaxRowsReliable == 4
\* the largest number of texts of one insert_batch call
MaxBatch == 2
\* the longest id list given to delete_by_ids in SpecDelete
MaxDeleteLen == 250
\* the largest number of bare _generate_id() calls of one process in SpecFresh
MaxCalls == 10
\* the largest number of lines of a document given to split_text
MaxLines == 5
\* the deepest heading level of those documents (the code handles 1..6)
MaxLevel == 3
\* MarkdownSplitter(chunk_size, chunk_overlap), in tokens
ChunkSize == 3
ChunkOverlap == 1
\* the largest number of lines of a document of SpecReset
MaxResetLines == 6
\* SpecResplit: the longest document and the largest number of split_text calls
MaxResplitLines == 3
MaxSplitCalls == 3

(***************************************************************************)
(* Program constants.                                                      *)
(***************************************************************************)
\* delete_by_ids: batch_size = 100
batch_size == 100
\* _get_max_id: query(..., limit=10000).  Scaled to 2 rows: the allocator
\* depends on the limit only through whether the collection has more rows
\* than the limit.
max_id_scan_limit == 2
\* clear_collection: query(..., limit=16384).  Scaled to 3 rows, above the
\* allocator's limit as in the source.
clear_scan_limit == 3

Subjects == {"faq", "general"}
Procs == {1, 2}
\* the process of the single-writer specification
Writer == CHOOSE p \in Procs : \A q \in Procs : p <= q

VARIABLES
    collection,   \* the live rows of the Milvus collection, in insertion order
    last_id,      \* VectorDB.last_id of each process
    held,         \* every id that a row of the collection has ever had
    returned,     \* the ids the bare _generate_id() calls of each process returned since it started
    alloc,        \* the ids _generate_id returned during the last handler
    ret,          \* the last handler: its name, its argument and what it returned
    calls,        \* the client.delete calls the last handler issued, with their outcomes
    input,        \* SpecDelete: <<ids>>, the id list delete_by_ids is about to get; <<>> after
    singleWriter, \* SpecRace: whether writers take turns (one handler at a time)
    pc,           \* SpecRace: "idle", or "write" between _generate_id and client.insert
    pending,      \* SpecRace: the record each process is about to insert
    observed,     \* SpecRace: what the last _get_max_id of each process saw
    doc,           \* SpecSplit: the Markdown text given to split_text, a sequence of lines
    split_pc,      \* SpecSplit: "start", "loop" (inside the for loop), "done" (returned)
    header_splits, \* SpecSplit: the sections the header splitter returned
    pos,           \* SpecSplit: the index in header_splits of the next section of the loop
    last_headers,  \* SpecSplit: level -> <<title>>, or <<>> for None
    final_chunks,  \* SpecSplit: the chunks produced so far
    split_calls,   \* SpecResplit: the number of split_text calls made on the MarkdownSplitter
    id_text_map,   \* VectorApp.id_text_map: id -> text
    process,       \* "running", or "exited" once sys.exit was called
    llm_chat       \* the class attributes of LLMChat, its one object's attributes and the constructions made

storeVars == <<collection, last_id, held, returned, alloc, ret, calls>>
deleteVars == <<input>>
raceVars == <<singleWriter, pc, pending, observed>>
splitVars == <<doc, split_pc, header_splits, pos, last_headers, final_chunks, split_calls>>
appVars == <<id_text_map, process, llm_chat>>

(***************************************************************************)
(* Helpers.                                                                *)
(***************************************************************************)
Range(s) == {s[i] : i \in DOMAIN s}

Min2(a, b) == IF a <= b THEN a ELSE b

\* the subsequence of s at the indices I, in order
Pick(s, I) ==
    LET F[k \in 0..Len(s)] ==
            IF k = 0 THEN <<>>
            ELSE IF k \in I THEN Append(F[k - 1], s[k]) ELSE F[k - 1]
    IN F[Len(s)]

\* the ids of a sequence of rows, in order
IdsOf(rows) == [k \in 1..Len(rows) |-> rows[k].id]

LiveIds == {collection[k].id : k \in 1..Len(collection)}

\* the ascending sequence of a set of integers
RECURSIVE SortedSeq(_)
SortedSeq(S) ==
    IF S = {} THEN <<>>
    ELSE LET m == CHOOSE x \in S : \A y \in S : x <= y
         IN <<m>> \o SortedSeq(S \ {m})

NoCall == <<>>
Ret(op, arg, none, ids, flag) ==
    [op |-> op, arg |-> arg, none |-> none, ids |-> ids, flag |-> flag]
Call(name, pks, result) == [call |-> name, pks |-> pks, result |-> result]

(***************************************************************************)
(* The Milvus client.  A call either raises, or returns; what it returns   *)
(* when the collection has more rows than the limit is any `limit` rows.   *)
(***************************************************************************)
\* client.query(filter="id >= 0", limit=limit): the results it may return
client_query(coll, limit) ==
    IF Len(coll) <= limit THEN {coll}
    ELSE {Pick(coll, I) : I \in {J \in SUBSET (1..Len(coll)) : Cardinality(J) = limit}}

QueryOutcomes(coll, limit) ==
    {[raised |-> TRUE, rows |-> <<>>]}
        \cup {[raised |-> FALSE, rows |-> r] : r \in client_query(coll, limit)}

\* client.insert(data): "ok" stores the rows and reports their ids, "raise"
\* raises, "empty" returns a result without ids; the last two store nothing.
\* Milvus does not check primary keys on insert: a row is appended also when
\* a live row has its id.
InsertOutcomes == {"ok", "raise", "empty"}
client_insert(coll, data, o) == IF o = "ok" THEN coll \o data ELSE coll

\* client.delete(pks=batch): "ok" removes the rows with these ids and returns
\* a truthy result, "raise" raises, "empty" returns a falsy result; the last
\* two remove nothing.
DeleteOutcomes == {"ok", "raise", "empty"}

\* a delete that empties the collection whatever the keys are
client_delete_drops_all(coll, pks, o) == IF o = "ok" THEN <<>> ELSE coll

client_delete(coll, pks, o) ==
    IF o = "ok" THEN SelectSeq(coll, LAMBDA r : r.id \notin Range(pks)) ELSE coll

(***************************************************************************)
(* The id allocator.                                                       *)
(***************************************************************************)
\* _get_max_id on the outcome q of its query
_get_max_id(q) ==
    IF q.raised THEN 0
    ELSE IF Len(q.rows) = 0 THEN 0
    ELSE LET F[k \in 0..Len(q.rows)] ==
                 IF k = 0 THEN 0
                 ELSE IF q.rows[k].id > F[k - 1] THEN q.rows[k].id ELSE F[k - 1]
         IN F[Len(q.rows)]

\* a process that does not use its high-water mark
generate_id_forgets_last_id(last, scan) ==
    (IF scan.exists THEN _get_max_id(scan.q) ELSE 0) + 1

\* _generate_id with self.last_id = last: the new last_id, which it returns.
\* scan.exists is collection_exists() (False also when list_collections
\* raises), scan.q the outcome of _get_max_id's query.
_generate_id(last, scan) ==
    (IF scan.exists /\ _get_max_id(scan.q) > last THEN _get_max_id(scan.q) ELSE last) + 1

ScanOutcomes(coll) ==
    {[exists |-> FALSE, q |-> [raised |-> TRUE, rows |-> <<>>]]}
        \cup {[exists |-> TRUE, q |-> q] : q \in QueryOutcomes(coll, max_id_scan_limit)}

\* the ids of n successive _generate_id calls, the k-th with outcome scans[k]
GenerateIds(last, scans) ==
    LET F[k \in 0..Len(scans)] ==
            IF k = 0 THEN <<>>
            ELSE Append(F[k - 1],
                        _generate_id(IF k = 1 THEN last ELSE F[k - 1][k - 1], scans[k]))
    IN F[Len(scans)]

(***************************************************************************)
(* delete_by_ids and clear_collection.                                     *)
(***************************************************************************)
NumBatches(ids) == (Len(ids) + batch_size - 1) \div batch_size

\* id_list[i:i+batch_size] of the k-th round of the loop (k = 1, 2, ...)
BatchOf(ids, k) ==
    SubSeq(ids, (k - 1) * batch_size + 1, Min2(k * batch_size, Len(ids)))

\* a loop that gives up at the first batch that fails
delete_by_ids_stops_at_failure(coll, ids, out) ==
    LET F[k \in 0..NumBatches(ids)] ==
            IF k = 0 THEN [coll |-> coll, deleted |-> <<>>, calls |-> <<>>, go |-> TRUE]
            ELSE IF ~F[k - 1].go THEN F[k - 1]
            ELSE LET b == BatchOf(ids, k)
                 IN [coll |-> client_delete(F[k - 1].coll, b, out[k]),
                     deleted |-> IF out[k] = "ok" THEN F[k - 1].deleted \o b
                                 ELSE F[k - 1].deleted,
                     calls |-> Append(F[k - 1].calls, Call("delete", b, out[k])),
                     go |-> out[k] = "ok"]
    IN [coll |-> F[NumBatches(ids)].coll,
        deleted |-> F[NumBatches(ids)].deleted,
        calls |-> F[NumBatches(ids)].calls]

\* delete_by_ids(ids) on the collection coll, the k-th client.delete call
\* having outcome out[k]: the collection afterwards, all_deleted_ids and the
\* calls issued.
delete_by_ids(coll, ids, out) ==
    LET F[k \in 0..NumBatches(ids)] ==
            IF k = 0 THEN [coll |-> coll, deleted |-> <<>>, calls |-> <<>>]
            ELSE LET b == BatchOf(ids, k)
                 IN [coll |-> client_delete(F[k - 1].coll, b, out[k]),
                     deleted |-> IF out[k] = "ok" THEN F[k - 1].deleted \o b
                                 ELSE F[k - 1].deleted,
                     calls |-> Append(F[k - 1].calls, Call("delete", b, out[k]))]
    IN F[NumBatches(ids)]

\* the ids clear_collection collects from the rows its query returned:
\* all of them (subject = <<>>, Python's None) or those of subject[1]
ClearIds(rows, subject) ==
    IdsOf(IF subject = <<>> THEN rows
          ELSE SelectSeq(rows, LAMBDA r : r.subject = subject[1]))

\* clear_collection(subject): the collection afterwards, the value returned
\* and the calls issued.  q is the outcome of its query, out the outcomes of
\* the client.delete calls of its delete_by_ids.
clear_collection(coll, subject, q, out) ==
    IF q.raised THEN [coll |-> coll, flag |-> FALSE, calls |-> NoCall]
    ELSE IF Len(q.rows) = 0
    THEN [coll |-> coll, flag |-> TRUE, calls |-> NoCall]
    ELSE IF Len(ClearIds(q.rows, subject)) = 0
    THEN [coll |-> coll, flag |-> TRUE, calls |-> NoCall]
    ELSE LET d == delete_by_ids(coll, ClearIds(q.rows, subject), out)
         IN [coll |-> d.coll, flag |-> TRUE,
             calls |-> d.calls]

(***************************************************************************)
(* The handlers of one VectorDB process, each one atomic action.           *)
(***************************************************************************)
\* insert(text, vector, subject)
Insert(p, subject, scan, o) ==
    LET id == _generate_id(last_id[p], scan)
        data == <<[id |-> id, subject |-> subject]>>
    IN /\ id <= MaxId
       /\ last_id' = [last_id EXCEPT ![p] = id]
       /\ alloc' = <<id>>
       /\ collection' = client_insert(collection, data, o)
       /\ held' = held \cup (IF o = "ok" THEN {id} ELSE {})
       /\ UNCHANGED returned
       /\ ret' = Ret("insert", <<subject>>, o # "ok",
                     IF o = "ok" THEN <<id>> ELSE <<>>, o = "ok")
       /\ calls' = NoCall

\* insert_batch(texts, vectors, subjects) with len(texts) = len(vectors) =
\* len(subjects): every id is generated before the one client.insert call
InsertBatch(p, subjects, scans, o) ==
    LET ids == GenerateIds(last_id[p], scans)
        data == [k \in 1..Len(subjects) |-> [id |-> ids[k], subject |-> subjects[k]]]
    IN /\ Len(subjects) = Len(scans)
       /\ Len(subjects) > 0
       /\ ids[Len(ids)] <= MaxId
       /\ last_id' = [last_id EXCEPT ![p] = ids[Len(ids)]]
       /\ UNCHANGED returned
       /\ alloc' = ids
       /\ collection' = client_insert(collection, data, o)
       /\ held' = held \cup (IF o = "ok" THEN Range(ids) ELSE {})
       /\ ret' = Ret("insert_batch", subjects, o # "ok",
                     IF o = "ok" THEN ids ELSE <<>>, o = "ok")
       /\ calls' = NoCall

\* a bare _generate_id() call
GenerateId(p, scan) ==
    LET id == _generate_id(last_id[p], scan)
    IN /\ last_id' = [last_id EXCEPT ![p] = id]
       /\ returned' = [returned EXCEPT ![p] = Append(@, id)]
       /\ alloc' = <<id>>
       /\ ret' = Ret("_generate_id", <<>>, FALSE, <<id>>, TRUE)
       /\ calls' = NoCall
       /\ UNCHANGED <<collection, held>>

\* delete_by_ids(ids) with a non-empty or empty list of ids
DeleteByIds(ids, out) ==
    LET d == delete_by_ids(collection, ids, out)
    IN /\ collection' = d.coll
       /\ ret' = Ret("delete_by_ids", ids, FALSE, d.deleted, TRUE)
       /\ calls' = d.calls
       /\ alloc' = <<>>
       /\ UNCHANGED <<last_id, held, returned>>

\* clear_collection(subject), subject = <<>> standing for None
ClearCollection(subject, q, out) ==
    LET c == clear_collection(collection, subject, q, out)
    IN /\ collection' = c.coll
       /\ ret' = Ret("clear_collection", subject, FALSE, <<>>, c.flag)
       /\ calls' = c.calls
       /\ alloc' = <<>>
       /\ UNCHANGED <<last_id, held, returned>>

\* the process ends and a new one opens the same collection: VectorDB.__init__
\* sets last_id = 0
Restart(p) ==
    /\ last_id' = [last_id EXCEPT ![p] = 0]
    /\ returned' = [returned EXCEPT ![p] = <<>>]
    /\ alloc' = <<>>
    /\ ret' = Ret("restart", <<>>, FALSE, <<>>, TRUE)
    /\ calls' = NoCall
    /\ UNCHANGED <<collection, held>>

(***************************************************************************)
(* Spec: a single writer.                                                  *)
(***************************************************************************)
InitStore ==
    /\ collection = <<>>
    /\ last_id = [p \in Procs |-> 0]
    /\ held = {}
    /\ returned = [p \in Procs |-> <<>>]
    /\ alloc = <<>>
    /\ ret = Ret("init", <<>>, FALSE, <<>>, TRUE)
    /\ calls = NoCall

InitRaceIdle ==
    /\ singleWriter = TRUE
    /\ pc = [p \in Procs |-> "idle"]
    /\ pending = [p \in Procs |-> <<>>]
    /\ observed = [p \in Procs |-> [seen |-> FALSE, max |-> 0]]

InitNoInput == input = <<>>

\* no split_text call
InitNoSplit ==
    /\ doc = <<>>
    /\ split_pc = "done"
    /\ header_splits = <<>>
    /\ pos = 1
    /\ last_headers = [i \in 1..6 |-> <<>>]
    /\ final_chunks = <<>>
    /\ split_calls = 0

\* the class LLMChat before its first construction: _instance None (0),
\* no object made; model_name and llm are the attributes of the object that
\* _instance names (<<>> for unset or None), loads counts the runs of
\* _init_llm, constructions lists what each LLMChat(...) got and returned
NoLLMChat ==
    [_instance |-> 0, _initialized |-> FALSE, objects |-> 0,
     model_name |-> <<>>, llm |-> <<>>, loads |-> 0, constructions |-> <<>>]

\* no VectorApp, no LLMChat
InitNoApp ==
    /\ id_text_map = <<>>
    /\ process = "running"
    /\ llm_chat = NoLLMChat

Init == InitStore /\ InitRaceIdle /\ InitNoInput /\ InitNoSplit /\ InitNoApp

\* the id lists delete_by_ids is called with: the ascending list of each set of ids
IdLists == {SortedSeq(S) : S \in SUBSET (1..MaxId)}

OutcomeSeqs(n) == [1..n -> DeleteOutcomes]

\* The outcomes of the store calls.  With faults every outcome above; without,
\* every call returns (a scan of more rows than its limit is still cut off).
ScanSet(faults) ==
    IF faults THEN ScanOutcomes(collection)
    ELSE {[exists |-> TRUE, q |-> [raised |-> FALSE, rows |-> r]] :
              r \in client_query(collection, max_id_scan_limit)}
InsertSet(faults) == IF faults THEN InsertOutcomes ELSE {"ok"}
DeleteSet(faults, n) == IF faults THEN OutcomeSeqs(n) ELSE [1..n -> {"ok"}]
QuerySet(faults, limit) ==
    IF faults THEN QueryOutcomes(collection, limit)
    ELSE {[raised |-> FALSE, rows |-> r] : r \in client_query(collection, limit)}

RowCap(faults) == IF faults THEN MaxRows ELSE MaxRowsReliable

NextInsert(faults) ==
    /\ last_id[Writer] < MaxId
    /\ Len(collection) < RowCap(faults)
    /\ \E s \in Subjects, scan \in ScanSet(faults), o \in InsertSet(faults) :
           Insert(Writer, s, scan, o)
    /\ UNCHANGED <<raceVars, deleteVars, splitVars, appVars>>

NextInsertBatch(faults) ==
    /\ \E n \in 1..MaxBatch :
           /\ last_id[Writer] + n <= MaxId
           /\ Len(collection) + n <= RowCap(faults)
           /\ \E subjects \in [1..n -> Subjects],
                 scans \in [1..n -> ScanSet(faults)],
                 o \in InsertSet(faults) :
                  InsertBatch(Writer, subjects, scans, o)
    /\ UNCHANGED <<raceVars, deleteVars, splitVars, appVars>>

NextDeleteByIds(faults) ==
    /\ \E ids \in IdLists :
           \E out \in DeleteSet(faults, NumBatches(ids)) : DeleteByIds(ids, out)
    /\ UNCHANGED <<raceVars, deleteVars, splitVars, appVars>>

NextClearCollection(faults) ==
    /\ \E subject \in {<<>>} \cup {<<s>> : s \in Subjects},
          q \in QuerySet(faults, clear_scan_limit) :
           \E out \in DeleteSet(faults, NumBatches(ClearIds(q.rows, subject))) :
               ClearCollection(subject, q, out)
    /\ UNCHANGED <<raceVars, deleteVars, splitVars, appVars>>

NextRestart ==
    /\ Restart(Writer)
    /\ UNCHANGED <<raceVars, deleteVars, splitVars, appVars>>

Next ==
    \/ NextInsert(TRUE)
    \/ NextInsertBatch(TRUE)
    \/ NextDeleteByIds(TRUE)
    \/ NextClearCollection(TRUE)
    \/ NextRestart

\* the same handlers over a store whose calls never fail
NextReliable ==
    \/ NextInsert(FALSE)
    \/ NextInsertBatch(FALSE)
    \/ NextDeleteByIds(FALSE)
    \/ NextClearCollection(FALSE)
    \/ NextRestart

vars == <<collection, last_id, held, returned, alloc, ret, calls, input,
          singleWriter, pc, pending, observed,
          doc, split_pc, header_splits, pos, last_headers, final_chunks, split_calls,
          id_text_map, process, llm_chat>>

Spec == Init /\ [][Next]_vars

SpecReliable == Init /\ [][NextReliable]_vars

(***************************************************************************)
(* SpecFresh: bare _generate_id() calls of fresh VectorDB processes on a   *)
(* collection that stays empty.                                            *)
(***************************************************************************)
NextFreshGenerateId ==
    /\ \E p \in Procs, scan \in ScanOutcomes(collection) :
           /\ Len(returned[p]) < MaxCalls
           /\ GenerateId(p, scan)
    /\ UNCHANGED <<raceVars, deleteVars, splitVars, appVars>>

NextFreshRestart ==
    /\ \E p \in Procs : Restart(p)
    /\ UNCHANGED <<raceVars, deleteVars, splitVars, appVars>>

NextFresh ==
    \/ NextFreshGenerateId
    \/ NextFreshRestart

SpecFresh == Init /\ [][NextFresh]_vars

(***************************************************************************)
(* SpecDelete: one delete_by_ids call on an id list of up to MaxDeleteLen  *)
(* ids, ascending or descending, each client.delete call with any outcome. *)
(***************************************************************************)
\* 1, 2, ..., n, or n, ..., 2, 1
IdList(n, descending) == [k \in 1..n |-> IF descending THEN n + 1 - k ELSE k]

\* rows that lie in different batches of the list 1..MaxDeleteLen
SeededCollection ==
    [k \in 1..3 |-> [id |-> 100 * k - 50, subject |-> IF k = 2 THEN "faq" ELSE "general"]]

InitDelete ==
    /\ collection \in {<<>>, SeededCollection}
    /\ last_id = [p \in Procs |-> 0]
    /\ held = Range(IdsOf(collection))
    /\ returned = [p \in Procs |-> <<>>]
    /\ alloc = <<>>
    /\ ret = Ret("init", <<>>, FALSE, <<>>, TRUE)
    /\ calls = NoCall
    /\ InitRaceIdle
    /\ InitNoApp
    /\ InitNoSplit
    /\ input \in {<<IdList(n, d)>> : n \in 0..MaxDeleteLen, d \in BOOLEAN}

NextDelete ==
    /\ input # <<>>
    /\ \E out \in OutcomeSeqs(NumBatches(input[1])) : DeleteByIds(input[1], out)
    /\ input' = <<>>
    /\ UNCHANGED <<raceVars, splitVars, appVars>>

SpecDelete == InitDelete /\ [][NextDelete]_vars

(***************************************************************************)
(* SpecRace: two VectorDB processes insert into one collection.  insert is *)
(* split where it talks to the store: _generate_id (its scan), then        *)
(* client.insert.  With singleWriter a process starts an insert only when  *)
(* no other process is inside one.                                         *)
(***************************************************************************)
\* insert up to data = {"id": self._generate_id(), ...}
RaceGenerate(p, subject, scan) ==
    LET id == _generate_id(last_id[p], scan)
    IN /\ pc[p] = "idle"
       /\ singleWriter => \A q \in Procs : pc[q] = "idle"
       /\ id <= MaxId
       /\ Len(collection) + Cardinality({q \in Procs : pc[q] = "write"}) < MaxRows
       /\ last_id' = [last_id EXCEPT ![p] = id]
       /\ alloc' = <<id>>
       /\ pending' = [pending EXCEPT ![p] = <<[id |-> id, subject |-> subject]>>]
       /\ observed' = [observed EXCEPT ![p] =
                          [seen |-> scan.exists /\ ~scan.q.raised /\ scan.q.rows = collection,
                           max |-> _get_max_id(scan.q)]]
       /\ pc' = [pc EXCEPT ![p] = "write"]
       /\ UNCHANGED <<collection, held, returned, ret, calls, singleWriter, deleteVars, splitVars, appVars>>

\* insert from self.client.insert(...) to its return
RaceWrite(p, o) ==
    /\ pc[p] = "write"
    /\ collection' = client_insert(collection, pending[p], o)
    /\ held' = held \cup (IF o = "ok" THEN Range(IdsOf(pending[p])) ELSE {})
    /\ ret' = Ret("insert", <<pending[p][1].subject>>, o # "ok",
                  IF o = "ok" THEN IdsOf(pending[p]) ELSE <<>>, o = "ok")
    /\ alloc' = <<>>
    /\ pending' = [pending EXCEPT ![p] = <<>>]
    /\ pc' = [pc EXCEPT ![p] = "idle"]
    /\ UNCHANGED <<last_id, returned, calls, observed, singleWriter, deleteVars, splitVars, appVars>>

InitRace ==
    /\ InitStore
    /\ InitNoInput
    /\ InitNoSplit
    /\ InitNoApp
    /\ singleWriter \in BOOLEAN
    /\ pc = [p \in Procs |-> "idle"]
    /\ pending = [p \in Procs |-> <<>>]
    /\ observed = [p \in Procs |-> [seen |-> FALSE, max |-> 0]]

NextRaceGenerate ==
    \E p \in Procs, s \in Subjects, scan \in ScanOutcomes(collection) : RaceGenerate(p, s, scan)

NextRaceWrite == \E p \in Procs, o \in InsertOutcomes : RaceWrite(p, o)

NextRace ==
    \/ NextRaceGenerate
    \/ NextRaceWrite

SpecRace == InitRace /\ [][NextRace]_vars

(***************************************************************************)
(* MarkdownSplitter.  A string is a sequence of tokens: words, whitespace  *)
(* tokens, HTML tag tokens; its length is its number of tokens.  A         *)
(* document is a sequence of lines, a heading line (level, title) or a     *)
(* body line.                                                              *)
(***************************************************************************)
Tags == {"<b>", "</b>"}
Whitespace == {" ", "\n"}
\* the separator of ' > '.join(...)
Sep == " > "

HeaderKey == <<"header_1", "header_2", "header_3", "header_4", "header_5", "header_6">>
HeaderLevels == <<1, 2, 3, 4, 5, 6>>

HeadingLine(level, title) == [kind |-> "heading", level |-> level, text |-> title]
BodyLine(text) == [kind |-> "body", level |-> 0, text |-> text]

\* a dict with a key set
Put(d, key, value) == [x \in DOMAIN d \cup {key} |-> IF x = key THEN value ELSE d[x]]
EmptyDict == [x \in {} |-> <<>>]

\* ' > '.join(parts)
RECURSIVE Join(_)
Join(parts) ==
    IF Len(parts) = 0 THEN <<>>
    ELSE IF Len(parts) = 1 THEN parts[1]
    ELSE parts[1] \o <<Sep>> \o Join(Tail(parts))

\* BeautifulSoup(text).get_text(separator=' '), re.sub(r'\s+', ' ', ...), strip():
\* the tags go, the text around them is joined by blanks, every run of
\* whitespace becomes one blank, and leading and trailing blanks go.
clean_html_tags(text) ==
    LET blanked == [k \in 1..Len(text) |->
                        IF text[k] \in Tags \cup Whitespace THEN " " ELSE text[k]]
        kept == {k \in 1..Len(text) :
                    \/ blanked[k] # " "
                    \/ /\ k > 1
                       /\ blanked[k - 1] # " "
                       /\ \E j \in (k + 1)..Len(text) : blanked[j] # " "}
    IN Pick(blanked, kept)

\* MarkdownHeaderTextSplitter.split_text with headers_to_split_on = # .. ######
\* and strip_headers: a heading line pops the headings at its level and below
\* off the header stack and pushes its own; the body lines up to the next
\* heading are one section, whose metadata are the headings on the stack;
\* a heading without body lines under it gives no section; neighbouring
\* sections with equal metadata are merged.
header_splitter_split_text(text) ==
    LET Flush(st) ==
            IF st.content = <<>> THEN st.out
            ELSE IF /\ Len(st.out) > 0
                    /\ st.out[Len(st.out)].metadata = st.current
                 THEN [st.out EXCEPT ![Len(st.out)].page_content = @ \o <<"\n">> \o st.content]
                 ELSE Append(st.out, [page_content |-> st.content, metadata |-> st.current])
        F[k \in 0..Len(text)] ==
            IF k = 0
            THEN [stack |-> EmptyDict, current |-> EmptyDict, content |-> <<>>, out |-> <<>>]
            ELSE LET st == F[k - 1]
                     line == text[k]
                 IN IF line.kind = "heading"
                    THEN LET below == {key \in DOMAIN st.stack :
                                         \E i \in 1..(line.level - 1) : key = HeaderKey[i]}
                             stack == Put([key \in below |-> st.stack[key]],
                                          HeaderKey[line.level], line.text)
                         IN [stack |-> stack, current |-> stack,
                             content |-> <<>>, out |-> Flush(st)]
                    ELSE [st EXCEPT !.content =
                              IF @ = <<>> THEN line.text ELSE @ \o <<"\n">> \o line.text]
    IN Flush(F[Len(text)])

\* RecursiveCharacterTextSplitter.split_text on a text longer than size:
\* pieces of at most size tokens, each starting overlap tokens before the
\* end of the one before it.
text_splitter_split_text(text, size, overlap) ==
    LET step == size - overlap
        count == CHOOSE n \in 1..Len(text) :
                    /\ (n - 1) * step + size >= Len(text)
                    /\ \A m \in 1..(n - 1) : (m - 1) * step + size < Len(text)
    IN [k \in 1..count |->
            SubSeq(text, (k - 1) * step + 1, Min2((k - 1) * step + size, Len(text)))]

\* the levels whose header key is in the metadata, in level order
LevelsIn(metadata) == SelectSeq(HeaderLevels, LAMBDA i : HeaderKey[i] \in DOMAIN metadata)

\* the levels whose header value is truthy, in level order
TitleLevels(metadata) ==
    SelectSeq(LevelsIn(metadata), LAMBDA i : metadata[HeaderKey[i]] # <<>>)

\* _build_title_path that does not clean the titles
build_title_path_raw(metadata) ==
    Join([k \in 1..Len(TitleLevels(metadata)) |-> metadata[HeaderKey[TitleLevels(metadata)[k]]]])

_build_title_path(metadata) ==
    Join([k \in 1..Len(TitleLevels(metadata)) |->
            clean_html_tags(metadata[HeaderKey[TitleLevels(metadata)[k]]])])

\* the loop body of split_text without the break: the level is the deepest
\* heading of the section
current_level_deepest(metadata) ==
    IF LevelsIn(metadata) = <<>> THEN 0
    ELSE LevelsIn(metadata)[Len(LevelsIn(metadata))]

\* split_text, `for i in range(1, 7): if f"header_{i}" in metadata: ... break`:
\* the first level whose header key is in the metadata; 0 for None
current_level(metadata) ==
    IF LevelsIn(metadata) = <<>> THEN 0 ELSE LevelsIn(metadata)[1]

\* split_text, the body of `for split in header_splits` for one section:
\* the new last_headers and the chunks of the section
process_split(split, last, size, overlap) ==
    LET clean_content == clean_html_tags(split.page_content)
        truthy == {key \in DOMAIN split.metadata : split.metadata[key] # <<>>}
        metadata == [key \in truthy |-> split.metadata[key]]
        level == current_level(metadata)
        headers == IF level = 0 THEN last
                   ELSE [j \in 1..6 |->
                            IF j = level THEN <<metadata[HeaderKey[level]]>>
                            ELSE IF j > level THEN <<>> ELSE last[j]]
        title_path == _build_title_path(metadata)
        with_path == IF title_path # <<>> THEN Put(metadata, "title_path", title_path)
                     ELSE metadata
        parents == SelectSeq(HeaderLevels,
                             LAMBDA i : i < level /\ headers[i] # <<>> /\ headers[i][1] # <<>>)
        parent_context == [k \in 1..Len(parents) |-> clean_html_tags(headers[parents[k]][1])]
        with_parents == Put(Put(with_path, "parent_headers", parent_context),
                            "full_context", title_path)
        with_summary == IF parent_context # <<>>
                        THEN Put(with_parents, "parent_summary", Join(parent_context))
                        ELSE with_parents
        sub_chunks == text_splitter_split_text(clean_content, size, overlap)
        Context(chunk) ==
            IF "parent_summary" \in DOMAIN with_summary
            THEN with_summary["parent_summary"] \o <<Sep>> \o title_path \o <<"\n">> \o chunk
            ELSE title_path \o <<"\n">> \o chunk
    IN [last_headers |-> headers,
        chunks |->
            IF Len(clean_content) > size
            THEN [i \in 1..Len(sub_chunks) |->
                    [text |-> sub_chunks[i],
                     metadata |-> Put(Put(with_summary, "chunk_index", i - 1),
                                      "context", Context(sub_chunks[i]))]]
            ELSE << [text |-> clean_content,
                     metadata |-> Put(Put(with_summary, "chunk_index", 0),
                                      "context", Context(clean_content))] >>]

(***************************************************************************)
(* SpecSplit: one split_text call on a document of up to MaxLines lines,   *)
(* one step per header section.                                            *)
(***************************************************************************)
Titles == { <<"Intro">>, <<"Details">>, <<"<b>", "Intro", "</b>">>, <<>> }
Bodies == { <<"x">>, <<"<b>", "x", "</b>", " ", "y", " ", "z", "\n", "w">> }

Lines == {HeadingLine(level, title) : level \in 1..MaxLevel, title \in Titles}
            \cup {BodyLine(text) : text \in Bodies}

Docs == UNION {[1..n -> Lines] : n \in 0..MaxLines}

InitSplit ==
    /\ InitStore
    /\ InitRaceIdle
    /\ InitNoApp
    /\ InitNoInput
    /\ doc \in Docs
    /\ split_pc = "start"
    /\ header_splits = <<>>
    /\ pos = 1
    /\ last_headers = [i \in 1..6 |-> <<>>]
    /\ final_chunks = <<>>
    /\ split_calls = 1

\* a split_text that keeps last_headers in the object, from call to call
SplitStartKeepsHeaders ==
    /\ split_pc = "start"
    /\ header_splits' = header_splitter_split_text(doc)
    /\ final_chunks' = <<>>
    /\ pos' = 1
    /\ split_pc' = "loop"
    /\ UNCHANGED <<doc, last_headers, split_calls, storeVars, deleteVars, raceVars, appVars>>

\* split_text up to the for loop
SplitStart ==
    /\ split_pc = "start"
    /\ header_splits' = header_splitter_split_text(doc)
    /\ last_headers' = [i \in 1..6 |-> <<>>]
    /\ final_chunks' = <<>>
    /\ pos' = 1
    /\ split_pc' = "loop"
    /\ UNCHANGED <<doc, split_calls, storeVars, deleteVars, raceVars, appVars>>

\* an iteration that keeps the first chunk of the section only
SplitSectionFirstChunkOnly ==
    /\ split_pc = "loop"
    /\ pos <= Len(header_splits)
    /\ LET r == process_split(header_splits[pos], last_headers, ChunkSize, ChunkOverlap)
       IN /\ last_headers' = r.last_headers
          /\ final_chunks' = final_chunks \o SubSeq(r.chunks, 1, 1)
    /\ pos' = pos + 1
    /\ UNCHANGED <<doc, split_pc, header_splits, split_calls, storeVars, deleteVars, raceVars, appVars>>

\* one iteration of `for split in header_splits`
SplitSection ==
    /\ split_pc = "loop"
    /\ pos <= Len(header_splits)
    /\ LET r == process_split(header_splits[pos], last_headers, ChunkSize, ChunkOverlap)
       IN /\ last_headers' = r.last_headers
          /\ final_chunks' = final_chunks \o r.chunks
    /\ pos' = pos + 1
    /\ UNCHANGED <<doc, split_pc, header_splits, split_calls, storeVars, deleteVars, raceVars, appVars>>

\* return final_chunks
SplitReturn ==
    /\ split_pc = "loop"
    /\ pos > Len(header_splits)
    /\ split_pc' = "done"
    /\ UNCHANGED <<doc, header_splits, pos, last_headers, final_chunks, split_calls,
                   storeVars, deleteVars, raceVars, appVars>>

NextSplit == SplitStart \/ SplitSection \/ SplitReturn

SpecSplit == InitSplit /\ [][NextSplit]_vars

(***************************************************************************)
(* Properties of the id allocator.                                         *)
(***************************************************************************)
NoDuplicateLiveIds ==
    \A i, j \in 1..Len(collection) : i # j => collection[i].id # collection[j].id

\* C1: under a single writer, across insert, insert_batch, delete_by_ids,
\* clear_collection and restarts, _generate_id never returns an id that a
\* record of the collection has had before, deleted or not.
C1_NeverReturnsHeldId ==
    [][\A k \in 1..Len(alloc') : alloc'[k] \notin held]_vars

\* C2: under a single writer, store failures and cut-off scans included, no
\* two live records share an id, and every id an insert is given is greater
\* than every id live in the collection when it is given.
C2_UniqueAndAboveLive ==
    [][/\ NoDuplicateLiveIds'
       /\ \A k \in 1..Len(alloc') : \A i \in LiveIds : alloc'[k] > i]_vars

\* C3: with one writer at a time no two live records share an id ...
C3_SingleWriterNoDuplicate == singleWriter => NoDuplicateLiveIds

\* ... while two unsynchronised processes whose scans both succeeded on the
\* whole collection and saw the same maximum id have both written that
\* maximum plus one.
C3_RaceDuplicate ==
    /\ ~singleWriter
    /\ \A p \in Procs : observed[p].seen /\ pc[p] = "idle"
    /\ observed[1].max = observed[2].max
    /\ last_id[1] = last_id[2]
    /\ Cardinality({k \in 1..Len(collection) : collection[k].id = last_id[1]}) = 2

\* C4: the N bare _generate_id() calls of a fresh process on an empty
\* collection return 1, 2, ..., N in this order.
C4_SequentialIds ==
    \A p \in Procs : returned[p] = [k \in 1..Len(returned[p]) |-> k]

C4_ManyCalls ==
    /\ collection = <<>>
    /\ \E p \in Procs : Len(returned[p]) = MaxCalls /\ returned[p][MaxCalls] = MaxCalls

(***************************************************************************)
(* Properties of delete_by_ids and clear_collection.                       *)
(***************************************************************************)
\* the concatenation of the batches of ids whose call has outcome "ok"
RECURSIVE OkBatches(_, _, _)
OkBatches(ids, cs, k) ==
    IF k > Len(cs) THEN <<>>
    ELSE (IF cs[k].result = "ok"
          THEN SubSeq(ids, 100 * (k - 1) + 1, Min2(100 * k, Len(ids)))
          ELSE <<>>) \o OkBatches(ids, cs, k + 1)

AllCallsOk == \A k \in 1..Len(calls) : calls[k].result = "ok"

\* C6: clear_collection(subject=s) on a collection within the scan bound,
\* its store calls succeeding, removes the records of subject s and leaves
\* every other record as it was.
C6_ClearSubjectExact ==
    [][(/\ ret'.op = "clear_collection"
        /\ ret'.arg # <<>>
        /\ ret'.flag
        /\ AllCallsOk'
        /\ Len(collection) <= clear_scan_limit)
       => collection' = SelectSeq(collection, LAMBDA r : r.subject # ret'.arg[1])]_vars

\* C7: when clear_collection() without a subject returns True on a
\* collection within the scan bound, the collection is empty.
C7_ClearTrueMeansEmpty ==
    [][(/\ ret'.op = "clear_collection"
        /\ ret'.arg = <<>>
        /\ ret'.flag
        /\ Len(collection) <= clear_scan_limit)
       => collection' = <<>>]_vars

(***************************************************************************)
(* Properties of split_text.                                               *)
(***************************************************************************)
MetadataOf(k) == final_chunks[k].metadata

\* '# Intro', a body, '## Details', a body
IntroDetails(b1, b2) ==
    << HeadingLine(1, <<"Intro">>), BodyLine(b1), HeadingLine(2, <<"Details">>), BodyLine(b2) >>

ShortBodies == {b \in Bodies : Len(clean_html_tags(b)) <= ChunkSize}

\* C8: splitting '# Intro' with a short body followed by '## Details' with a
\* short body gives exactly 2 chunks, and the second chunk has title_path
\* 'Intro > Details' and parent_summary 'Intro'.
C8_IntroDetails ==
    (split_pc = "done" /\ \E b1, b2 \in ShortBodies : doc = IntroDetails(b1, b2))
        => /\ Len(final_chunks) = 2
           /\ "title_path" \in DOMAIN MetadataOf(2)
           /\ MetadataOf(2)["title_path"] = <<"Intro", Sep, "Details">>
           /\ "parent_summary" \in DOMAIN MetadataOf(2)
           /\ MetadataOf(2)["parent_summary"] = <<"Intro">>

\* the cleaned headings of a chunk's section at the levels above its own
\* heading, the deepest one of its metadata
AncestorChain(metadata) ==
    LET above == SelectSeq(LevelsIn(metadata),
                           LAMBDA i : i < current_level_deepest(metadata))
    IN [k \in 1..Len(above) |-> clean_html_tags(metadata[HeaderKey[above[k]]])]

\* C9: for every chunk of a section whose own heading is at level L,
\* parent_headers is the list of the headings active at levels 1..L-1, in
\* level order, and parent_summary is present exactly when that list is not
\* empty and is its elements joined by ' > '.
C9_ParentHeadersAreAncestors ==
    \A k \in 1..Len(final_chunks) :
        /\ MetadataOf(k)["parent_headers"] = AncestorChain(MetadataOf(k))
        /\ ("parent_summary" \in DOMAIN MetadataOf(k)) <=> (AncestorChain(MetadataOf(k)) # <<>>)
        /\ "parent_summary" \in DOMAIN MetadataOf(k)
              => MetadataOf(k)["parent_summary"] = Join(AncestorChain(MetadataOf(k)))

\* the title_path of a chunk, '' when it has none
TitlePathOf(metadata) ==
    IF "title_path" \in DOMAIN metadata THEN metadata["title_path"] ELSE <<>>

\* the header_i values of a chunk, in level order
HeaderValues(metadata) ==
    [k \in 1..Len(LevelsIn(metadata)) |-> metadata[HeaderKey[LevelsIn(metadata)[k]]]]

CleanedHeaderValues(metadata) ==
    [k \in 1..Len(LevelsIn(metadata)) |->
        clean_html_tags(metadata[HeaderKey[LevelsIn(metadata)[k]]])]

\* the heading of the chunk's own level, cleaned
OwnTitle(metadata) ==
    clean_html_tags(metadata[HeaderKey[current_level_deepest(metadata)]])

\* the chunk has a heading, and no other heading line of the document has
\* the same cleaned title
OwnHeadingUnique(metadata) ==
    /\ current_level_deepest(metadata) # 0
    /\ Cardinality({n \in 1..Len(doc) :
                        /\ doc[n].kind = "heading"
                        /\ clean_html_tags(doc[n].text) = OwnTitle(metadata)}) = 1

\* parent_headers does not hold the chunk's own heading
OwnHeadingExcluded(metadata) ==
    OwnHeadingUnique(metadata)
        => \A n \in 1..Len(metadata["parent_headers"]) :
                metadata["parent_headers"][n] # OwnTitle(metadata)

PositionTitle == <<"A", "B", "C", "D", "E", "F", "G", "H">>

\* what a line may be: a body line (level 0), or a heading with or without
\* its title
ResetChoices == {c \in [level : 0..MaxLevel, titled : BOOLEAN] : c.level = 0 => ~c.titled}

ResetLine(n, c) ==
    IF c.level = 0 THEN BodyLine(<<"x">>)
    ELSE HeadingLine(c.level, IF c.titled THEN <<PositionTitle[n]>> ELSE <<>>)

InitReset ==
    /\ InitStore
    /\ InitRaceIdle
    /\ InitNoApp
    /\ InitNoInput
    /\ \E n \in 0..MaxResetLines :
           \E c \in [1..n -> ResetChoices] : doc = [k \in 1..n |-> ResetLine(k, c[k])]
    /\ split_pc = "start"
    /\ header_splits = <<>>
    /\ pos = 1
    /\ last_headers = [i \in 1..6 |-> <<>>]
    /\ final_chunks = <<>>
    /\ split_calls = 1

SpecReset == InitReset /\ [][NextSplit]_vars

\* the heading line of the document that has this title
LineOfTitle(title) ==
    CHOOSE n \in 1..Len(doc) : doc[n].kind = "heading" /\ doc[n].text = title

\* heading line b is out of date at heading line o: between them comes a
\* heading line q, at the latest o itself, that is as shallow as some heading
\* line p before it, while b, also before q, is deeper than p
ResetBetween(b, o) ==
    \E p, q \in 1..Len(doc) :
        /\ p < q /\ b < q /\ q <= o
        /\ doc[p].kind = "heading" /\ doc[q].kind = "heading"
        /\ doc[q].level <= doc[p].level
        /\ doc[b].level > doc[p].level

\* C11: when a heading of level L is followed later by a heading of level
\* <= L, no chunk after the later heading lists in parent_headers a heading
\* of level > L that came before it.
C11_HeadingReset ==
    \A k \in 1..Len(final_chunks) :
        \A n \in 1..Len(MetadataOf(k)["parent_headers"]) :
            current_level_deepest(MetadataOf(k)) # 0 =>
                ~ResetBetween(LineOfTitle(MetadataOf(k)["parent_headers"][n]),
                              LineOfTitle(MetadataOf(k)[HeaderKey[current_level_deepest(MetadataOf(k))]]))

\* the spec's example, the headings named by their lines: '# A', '## B', a
\* body, '# D', '## E', a body; the chunk under E does not list B
C11_ExampleABCD ==
    /\ split_pc = "done"
    /\ doc = << HeadingLine(1, <<"A">>), HeadingLine(2, <<"B">>), BodyLine(<<"x">>),
                HeadingLine(1, <<"D">>), HeadingLine(2, <<"E">>), BodyLine(<<"x">>) >>
    /\ Len(final_chunks) = 2
    /\ MetadataOf(2)["header_2"] = <<"E">>
    /\ \A n \in 1..Len(MetadataOf(2)["parent_headers"]) :
            MetadataOf(2)["parent_headers"][n] # <<"B">>

(***************************************************************************)
(* SpecResplit: up to MaxSplitCalls split_text calls on one                *)
(* MarkdownSplitter, each on a document of up to MaxResplitLines lines.    *)
(* What a call leaves in the variables is there when the next one starts.  *)
(***************************************************************************)
ResplitLines ==
    {HeadingLine(level, title) : level \in 1..2, title \in {<<"Intro">>, <<"Details">>, <<>>}}
        \cup {BodyLine(text) : text \in Bodies}

ResplitDocs == UNION {[1..n -> ResplitLines] : n \in 0..MaxResplitLines}

\* split_text(text) as one function of its argument
split_text(text, size, overlap) ==
    LET splits == header_splitter_split_text(text)
        F[k \in 0..Len(splits)] ==
            IF k = 0 THEN [last_headers |-> [i \in 1..6 |-> <<>>], chunks |-> <<>>]
            ELSE LET r == process_split(splits[k], F[k - 1].last_headers, size, overlap)
                 IN [last_headers |-> r.last_headers, chunks |-> F[k - 1].chunks \o r.chunks]
    IN F[Len(splits)].chunks

InitResplit ==
    /\ InitStore
    /\ InitRaceIdle
    /\ InitNoApp
    /\ InitNoInput
    /\ doc \in ResplitDocs
    /\ split_pc = "start"
    /\ header_splits = <<>>
    /\ pos = 1
    /\ last_headers = [i \in 1..6 |-> <<>>]
    /\ final_chunks = <<>>
    /\ split_calls = 1

\* the caller calls split_text again, on any document
SplitCall ==
    /\ split_pc = "done"
    /\ split_calls < MaxSplitCalls
    /\ doc' \in ResplitDocs
    /\ split_pc' = "start"
    /\ split_calls' = split_calls + 1
    /\ UNCHANGED <<header_splits, pos, last_headers, final_chunks,
                   storeVars, deleteVars, raceVars, appVars>>

NextResplit == SplitStart \/ SplitSection \/ SplitReturn \/ SplitCall

SpecResplit == InitResplit /\ [][NextResplit]_vars

\* C12: whatever calls were made on the MarkdownSplitter before, a
\* split_text call returns the chunk sequence that a first call on the same
\* text returns: the same texts, the same metadata, in the same order.
C12_SameTextSameChunks ==
    split_pc = "done" => final_chunks = split_text(doc, ChunkSize, ChunkOverlap)

\* a third call has returned, on a text whose first section is under a
\* level-2 heading with no level-1 heading above it: a level-1 title left
\* over from an earlier call would show in its parent_headers
C12_ThirdCallReturned ==
    /\ split_pc = "done"
    /\ split_calls = 3
    /\ Len(final_chunks) > 0
    /\ "header_2" \in DOMAIN MetadataOf(1)
    /\ "header_1" \notin DOMAIN MetadataOf(1)
    /\ MetadataOf(1)["parent_headers"] = <<>>

(***************************************************************************)
(* insert_batch in full, and VectorApp.insert_batch_texts.  A list         *)
(* argument that may be None is <<>> for None and <<list>> for a list; a   *)
(* metadata item is a dict, <<>> for None or the empty dict.               *)
(***************************************************************************)
\* subjects[i] if subjects is not None and i < len(subjects), else "general"
\* (i counts from 1)
ItemSubject(subjects, i) ==
    IF subjects # <<>> /\ i <= Len(subjects[1]) THEN subjects[1][i] ELSE "general"

\* metadata_list[i] if metadata_list is not None and i < len(metadata_list)
ItemMetadata(metadata_list, i) ==
    IF metadata_list # <<>> /\ i <= Len(metadata_list[1]) THEN metadata_list[1][i] ELSE <<>>

\* item = {"id", "vector", "text", "subject"}; item.update(metadata)
batch_item(id, text, vector, subject, metadata) ==
    LET item == [id |-> id, vector |-> vector, text |-> text, subject |-> subject]
    IN [key \in DOMAIN item \cup DOMAIN metadata |->
            IF key \in DOMAIN metadata THEN metadata[key] ELSE item[key]]

\* client.insert(data) of insert_batch: as InsertOutcomes, and "short": the
\* store takes and reports all records but the last
BatchInsertOutcomes == InsertOutcomes \cup {"short"}

\* the rows client.insert(data) stores
StoredRows(data, o) ==
    IF o = "ok" THEN data
    ELSE IF o = "short" THEN SubSeq(data, 1, Len(data) - 1)
    ELSE <<>>

\* the store calls of one _generate_id: collection_exists, then the query of
\* _get_max_id if the collection exists
ScanCalls(scan) ==
    IF scan.exists
    THEN << Call("list_collections", <<>>, "ok"),
            Call("query", <<>>, IF scan.q.raised THEN "raise" ELSE "ok") >>
    ELSE << Call("list_collections", <<>>, "raise") >>

\* insert_batch's return: what it returns when client.insert reported
\* these ids for n records
insert_batch_result(reported, n) ==
    IF Len(reported) > 0 THEN [none |-> FALSE, ids |-> reported]
    ELSE [none |-> TRUE, ids |-> <<>>]

\* insert_batch from its try block on: zip(texts, vectors) pairs as many
\* items as the shorter list has.  scans[k]: the outcome of the k-th
\* _generate_id's scan; o: the outcome of client.insert.
insert_batch_body(coll, last, args, scans, o) ==
    LET n == Min2(Len(args.texts), Len(args.vectors))
        ids == GenerateIds(last, SubSeq(scans, 1, n))
        data == [i \in 1..n |->
                    batch_item(ids[i], args.texts[i], args.vectors[i],
                               ItemSubject(args.subjects, i),
                               ItemMetadata(args.metadata_list, i))]
        r == insert_batch_result(IdsOf(StoredRows(data, o)), n)
    IN [coll |-> coll \o StoredRows(data, o),
        last_id |-> IF n = 0 THEN last ELSE ids[n],
        alloc |-> ids, none |-> r.none, ids |-> r.ids,
        calls |-> (LET F[k \in 0..n] ==
                           IF k = 0 THEN <<>> ELSE F[k - 1] \o ScanCalls(scans[k])
                   IN F[n]) \o << Call("insert", <<>>, o) >>]

\* an insert_batch that does not compare the two lengths
insert_batch_unvalidated(coll, last, args, up, scans, o) ==
    IF ~up
    THEN [coll |-> coll, last_id |-> last, alloc |-> <<>>, none |-> TRUE, ids |-> <<>>,
          calls |-> << Call("connect", <<>>, "raise") >>]
    ELSE insert_batch_body(coll, last, args, scans, o)

\* insert_batch(texts, vectors, subjects, metadata_list) on the collection
\* coll with self.last_id = last.  up: the client is there or connect()
\* succeeds.
insert_batch(coll, last, args, up, scans, o) ==
    IF ~up
    THEN [coll |-> coll, last_id |-> last, alloc |-> <<>>, none |-> TRUE, ids |-> <<>>,
          calls |-> << Call("connect", <<>>, "raise") >>]
    ELSE IF Len(args.texts) # Len(args.vectors)
    THEN [coll |-> coll, last_id |-> last, alloc |-> <<>>, none |-> TRUE, ids |-> <<>>,
          calls |-> NoCall]
    ELSE insert_batch_body(coll, last, args, scans, o)

\* the vector text_to_vector gives for a text
VectorOf(text) == <<"vector", text>>

\* insert_batch_texts, lines 117-139: valid_texts, vectors, valid_subjects
\* and valid_metadata.  embedded[i]: text_to_vector gave a vector for the
\* i-th text.
batch_arguments(texts, subjects, metadata_list, embedded) ==
    LET valid == {i \in 1..Len(texts) : embedded[i]}
        valid_texts == Pick(texts, valid)
    IN [texts |-> valid_texts,
        vectors |-> [k \in 1..Len(valid_texts) |-> VectorOf(valid_texts[k])],
        subjects |-> << IF subjects = <<>> THEN <<>>
                        ELSE Pick(subjects[1], valid \cap (1..Len(subjects[1]))) >>,
        metadata_list |-> << Pick([i \in 1..Len(texts) |-> ItemMetadata(metadata_list, i)],
                                  valid) >>]

\* id_text_map after insert_batch_texts got doc_ids for valid_texts
MapAfterBatch(map, doc_ids, valid_texts) ==
    LET F[k \in 0..Len(doc_ids)] ==
            IF k = 0 THEN map ELSE Put(F[k - 1], doc_ids[k], valid_texts[k])
    IN F[Len(doc_ids)]

\* the return value of insert_batch_texts and the new id_text_map.  r: what
\* db.insert_batch did with the arguments insert_batch_texts passed
insert_batch_texts_result(map, r, valid_texts) ==
    [none |-> r.none, ids |-> r.ids,
     map |-> IF r.none THEN map ELSE MapAfterBatch(map, r.ids, valid_texts)]

\* the i-th text of a call
TextAt == <<"t1", "t2", "t3", "t4">>
MetadataItems == {<<>>, [source |-> "doc"], [subject |-> "other"]}
ListsOf(S) == UNION {[1..n -> S] : n \in 0..MaxBatch}
\* None, or a list
OptionalListsOf(S) == {<<>>} \cup {<<l>> : l \in ListsOf(S)}

InitBatch == InitStore /\ InitRaceIdle /\ InitNoInput /\ InitNoSplit /\ InitNoApp

\* db.insert_batch(texts, vectors, subjects, metadata_list), called directly
DbInsertBatch(n, m, subjects, metadata_list, up, scans, o) ==
    LET args == [texts |-> [k \in 1..n |-> TextAt[k]],
                 vectors |-> [k \in 1..m |-> VectorOf(TextAt[k])],
                 subjects |-> subjects, metadata_list |-> metadata_list]
        r == insert_batch(collection, last_id[Writer], args, up, scans, o)
    IN /\ ret.op = "init"
       /\ input' = << [via |-> "insert_batch", embedded |-> <<>>] @@ args >>
       /\ collection' = r.coll
       /\ last_id' = [last_id EXCEPT ![Writer] = r.last_id]
       /\ alloc' = r.alloc
       /\ held' = held \cup Range(IdsOf(r.coll))
       /\ ret' = Ret("insert_batch", <<>>, r.none, r.ids, ~r.none)
       /\ calls' = r.calls
       /\ UNCHANGED <<returned, raceVars, splitVars, appVars>>

\* insert_batch_texts(texts, subjects, metadata_list) with the collection
\* coll, self.db.last_id = last and self.id_text_map = map.  none: it
\* returned None; otherwise it returned ids.
insert_batch_texts(coll, last, map, texts, subjects, metadata_list, embedded, up, scans, o) ==
    LET args == batch_arguments(texts, subjects, metadata_list, embedded)
        r == IF Len(texts) = 0 \/ Len(args.vectors) = 0
             THEN [coll |-> coll, last_id |-> last, alloc |-> <<>>,
                   none |-> TRUE, ids |-> <<>>, calls |-> NoCall]
             ELSE insert_batch(coll, last, args, up, scans, o)
    IN insert_batch_texts_result(map, r, args.texts) @@ r

\* VectorApp.insert_batch_texts(texts, subjects, metadata_list)
AppInsertBatchTexts(n, subjects, metadata_list, embedded, up, scans, o) ==
    LET texts == [k \in 1..n |-> TextAt[k]]
        r == insert_batch_texts(collection, last_id[Writer], id_text_map, texts,
                                subjects, metadata_list, embedded, up, scans, o)
    IN /\ ret.op = "init"
       /\ input' = << [via |-> "insert_batch_texts", texts |-> texts, vectors |-> <<>>,
                       subjects |-> subjects, metadata_list |-> metadata_list,
                       embedded |-> embedded] >>
       /\ collection' = r.coll
       /\ last_id' = [last_id EXCEPT ![Writer] = r.last_id]
       /\ alloc' = r.alloc
       /\ held' = held \cup Range(IdsOf(r.coll))
       /\ ret' = Ret("insert_batch_texts", <<>>, r.none, r.ids, ~r.none)
       /\ calls' = r.calls
       /\ id_text_map' = r.map
       /\ UNCHANGED <<returned, raceVars, splitVars, process, llm_chat>>

NextBatch ==
    \/ /\ ret.op = "init"
       /\ \E n, m \in 0..MaxBatch, subjects \in OptionalListsOf(Subjects),
             metadata_list \in OptionalListsOf(MetadataItems), up \in BOOLEAN,
             scans \in [1..MaxBatch -> ScanOutcomes(collection)],
             o \in BatchInsertOutcomes :
               DbInsertBatch(n, m, subjects, metadata_list, up, scans, o)
    \/ /\ ret.op = "init"
       /\ \E n \in 0..MaxBatch, subjects \in OptionalListsOf(Subjects),
             metadata_list \in OptionalListsOf(MetadataItems), up \in BOOLEAN,
             scans \in [1..MaxBatch -> ScanOutcomes(collection)],
             o \in BatchInsertOutcomes :
               \E embedded \in [1..n -> BOOLEAN] :
                   AppInsertBatchTexts(n, subjects, metadata_list, embedded, up, scans, o)

SpecBatch == InitBatch /\ [][NextBatch]_vars

\* the last call was insert_batch with texts and vectors of different lengths
LengthMismatch ==
    /\ ret.op = "insert_batch"
    /\ Len(input[1].texts) # Len(input[1].vectors)

\* C13: an insert_batch call whose texts and vectors differ in number
\* returns None, issues no insert and no query call, stores no record and
\* leaves last_id as it was.
C13_LengthMismatchRejected ==
    [][LengthMismatch' =>
          /\ ret'.none
          /\ \A k \in 1..Len(calls') : calls'[k].call \notin {"insert", "query"}
          /\ collection' = collection
          /\ last_id' = last_id
          /\ alloc' = <<>>]_vars

\* a call with two texts and one vector on a reachable store came back
C13_MismatchCallReturned ==
    /\ LengthMismatch
    /\ Len(input[1].texts) = 2
    /\ Len(input[1].vectors) = 1
    /\ calls = NoCall
    /\ ret.none

\* C14: insert_batch returns ids only when client.insert reported exactly
\* one id for every record it was given; when it reported none or another
\* number, insert_batch returns None.
C14_IdsOnlyWhenAllReported ==
    (ret.op = "insert_batch" /\ ~ret.none) => Len(ret.ids) = Len(input[1].texts)

\* client.insert reported one id for two records and insert_batch returned it
C14_ShortReportReturned ==
    /\ ret.op = "insert_batch"
    /\ Len(input[1].texts) = 2
    /\ Len(input[1].vectors) = 2
    /\ calls[Len(calls)] = Call("insert", <<>>, "short")
    /\ ~ret.none
    /\ Len(ret.ids) = 1

\* the index, in the caller's lists, of the text of the k-th stored record
OwnIndex(k) ==
    IF input[1].via = "insert_batch" THEN k
    ELSE SortedSeq({i \in 1..Len(input[1].texts) : input[1].embedded[i]})[k]

CoreFields == {"id", "vector", "text", "subject"}
ExtraFields(row) == [key \in DOMAIN row \ CoreFields |-> row[key]]

\* C15: every record stored by insert_batch or insert_batch_texts has the
\* subject given at its text's own index in the caller's subjects list
\* ("general" if the list is absent or shorter) and, as extra fields, the
\* metadata given at that index, also when texts were skipped.
C15_SubjectAndMetadataByIndex ==
    ret.op \in {"insert_batch", "insert_batch_texts"} =>
        \A k \in 1..Len(collection) :
            /\ collection[k].text = TextAt[OwnIndex(k)]
            /\ collection[k].subject = ItemSubject(input[1].subjects, OwnIndex(k))
            /\ ExtraFields(collection[k]) = ItemMetadata(input[1].metadata_list, OwnIndex(k))

\* the first text was skipped and the second stored with the second subject
\* and the second metadata item
C15_SkippedTextKeepsAlignment ==
    /\ ret.op = "insert_batch_texts"
    /\ input[1].embedded = <<FALSE, TRUE>>
    /\ input[1].subjects = << <<"general", "faq">> >>
    /\ input[1].metadata_list = << << <<>>, [source |-> "doc"] >> >>
    /\ Len(collection) = 1
    /\ collection[1].text = "t2"
    /\ collection[1].subject = "faq"
    /\ ExtraFields(collection[1]) = [source |-> "doc"]

(***************************************************************************)
(* search.  Python floats are binary floating-point numbers rounded to the *)
(* nearest, ties to even; the model keeps that arithmetic at a scaled      *)
(* precision: MantissaBits bits of mantissa, binades 0..MaxExponent above  *)
(* the subnormals.  A float is the integer k that stands for k / One.      *)
(***************************************************************************)
MantissaBits == 3
MaxExponent == 6
\* the hits of one client.search response
MaxHits == 2

RECURSIVE Pow2(_)
Pow2(n) == IF n = 0 THEN 1 ELSE 2 * Pow2(n - 1)

\* 1.0
One == Pow2(MantissaBits - 1) * Pow2(MaxExponent \div 2)

\* the non-negative floats: subnormals and zero, then the normal numbers
FloatMagnitudes ==
    (0..(Pow2(MantissaBits) - 1))
        \cup {m * Pow2(j) : m \in Pow2(MantissaBits - 1)..(Pow2(MantissaBits) - 1),
                            j \in 0..MaxExponent}
Floats == FloatMagnitudes \cup {0 - k : k \in FloatMagnitudes}
MaxFloat == (Pow2(MantissaBits) - 1) * Pow2(MaxExponent)

\* the mantissa of a positive float
MantissaOf(k) ==
    IF k < Pow2(MantissaBits) THEN k
    ELSE CHOOSE m \in Pow2(MantissaBits - 1)..(Pow2(MantissaBits) - 1) :
             \E j \in 0..MaxExponent : k = m * Pow2(j)

\* the float nearest to n / d (n >= 0, d > 0, n / d <= MaxFloat), ties to
\* the even mantissa
RoundMagnitude(n, d) ==
    LET lo == CHOOSE k \in FloatMagnitudes :
                  /\ k * d <= n
                  /\ \A x \in FloatMagnitudes : x * d <= n => x <= k
        hi == CHOOSE k \in FloatMagnitudes :
                  /\ k * d >= n
                  /\ \A x \in FloatMagnitudes : x * d >= n => x >= k
    IN IF n - lo * d < hi * d - n THEN lo
       ELSE IF n - lo * d > hi * d - n THEN hi
       ELSE IF MantissaOf(lo) % 2 = 0 THEN lo ELSE hi

\* a + b
float_add(a, b) ==
    IF a + b >= 0 THEN RoundMagnitude(a + b, 1) ELSE 0 - RoundMagnitude(0 - (a + b), 1)

\* a / b, b # 0
float_div(a, b) ==
    IF (a >= 0) = (b > 0)
    THEN RoundMagnitude((IF a >= 0 THEN a ELSE 0 - a) * One, IF b > 0 THEN b ELSE 0 - b)
    ELSE 0 - RoundMagnitude((IF a >= 0 THEN a ELSE 0 - a) * One, IF b > 0 THEN b ELSE 0 - b)

\* 1.0 / (1.0 + distance) raises ZeroDivisionError
score_raises(distance) == float_add(One, distance) = 0

\* score = 1.0 / (1.0 + distance)
score(distance) == float_div(One, float_add(One, distance))

\* the distances of the model: the floats d for which 1.0 + d is below the
\* overflow threshold
Distances == {k \in Floats : k + One <= MaxFloat}

\* a hit of client.search: hit.get("id") and hit.get("distance"), <<>> for
\* None, and hit.get("entity", {}).  The k-th row of a response, if it has an
\* id, has the id k.
Entities == {<<>>, [text |-> "t1", subject |-> "faq"]}
HitChoices ==
    [has_id : BOOLEAN,
     distance : {<<>>} \cup {<<d>> : d \in Distances},
     entity : Entities]
Hit(k, c) ==
    [id |-> IF c.has_id THEN <<k>> ELSE <<>>, distance |-> c.distance, entity |-> c.entity]

\* what client.search does: it raises, returns a falsy value, or returns
\* [hits] with at most `limit` hits
SearchOutcomes(limit) ==
    {[kind |-> "raise", hits |-> <<>>], [kind |-> "falsy", hits |-> <<>>]}
        \cup {[kind |-> "rows", hits |-> [k \in 1..n |-> Hit(k, c[k])]] :
                  n \in 0..limit, c \in [1..limit -> HitChoices]}

\* the result_item of a hit that has an id
result_item(hit) ==
    [id |-> hit.id[1],
     score |-> IF hit.distance = <<>> THEN <<>> ELSE << score(hit.distance[1]) >>,
     text |-> IF "text" \in DOMAIN hit.entity THEN hit.entity.text ELSE "",
     subject |-> IF "subject" \in DOMAIN hit.entity THEN hit.entity.subject ELSE "general"]

\* VectorDB.search.  up: the client is there or connect() succeeds; r: what
\* client.search does.  none: search returned None; otherwise it returned
\* [hits].
search(up, r) ==
    IF ~up THEN [none |-> TRUE, hits |-> <<>>]
    ELSE IF r.kind # "rows" \/ Len(r.hits) = 0 THEN [none |-> TRUE, hits |-> <<>>]
    ELSE IF \E k \in 1..Len(r.hits) :
                /\ r.hits[k].id # <<>>
                /\ r.hits[k].distance # <<>>
                /\ score_raises(r.hits[k].distance[1])
    THEN [none |-> TRUE, hits |-> <<>>]
    ELSE LET kept == Pick(r.hits, {k \in 1..Len(r.hits) : r.hits[k].id # <<>>})
         IN [none |-> FALSE, hits |-> [k \in 1..Len(kept) |-> result_item(kept[k])]]

\* db.search(vector, limit=MaxHits)
Search(up, r) ==
    /\ ret.op = "init"
    /\ input' = << [via |-> "search", up |-> up, response |-> r] >>
    /\ ret' = [op |-> "search"] @@ search(up, r)
    /\ calls' = IF up THEN << Call("search", <<>>, r.kind) >>
                ELSE << Call("connect", <<>>, "raise") >>
    /\ UNCHANGED <<collection, last_id, held, returned, alloc,
                   raceVars, splitVars, appVars>>

NextSearch ==
    \/ /\ ret.op = "init"
       /\ \E r \in SearchOutcomes(MaxHits) : Search(TRUE, r)
    \/ /\ ret.op = "init"
       /\ Search(FALSE, [kind |-> "raise", hits |-> <<>>])

SpecSearch == InitBatch /\ [][NextSearch]_vars

\* the hits search returned for the service rows that have an id and a distance
ScoredPairs ==
    {<<a, b>> \in (1..Len(input[1].response.hits)) \X (1..Len(input[1].response.hits)) :
        /\ a < b
        /\ \A k \in {a, b} : /\ input[1].response.hits[k].id # <<>>
                             /\ input[1].response.hits[k].distance # <<>>}

\* C16: score(0) = 1, and of two distances the smaller has the strictly
\* greater score.
C16_ScoreStrictlyDecreasing ==
    /\ score(0) = One
    /\ (ret.op = "search" /\ ~ret.none) =>
           \A p \in ScoredPairs :
               LET d1 == input[1].response.hits[p[1]].distance[1]
                   d2 == input[1].response.hits[p[2]].distance[1]
               IN /\ d1 < d2 => score(d1) > score(d2)
                  /\ d2 < d1 => score(d2) > score(d1)

\* search returned two scored hits, the first at distance 0 with score 1
C16_TwoHitsScored ==
    /\ ret.op = "search"
    /\ ~ret.none
    /\ Len(ret.hits) = 2
    /\ input[1].response.hits[1].distance = <<0>>
    /\ ret.hits[1].score = <<One>>
    /\ ret.hits[2].score # <<>>
    /\ ret.hits[2].score[1] < One
    /\ ret.hits[2].score[1] > 0

\* search was called with a reachable store and the service returned rows
ServiceReturnedRows ==
    /\ ret.op = "search"
    /\ input[1].up
    /\ input[1].response.kind = "rows"
    /\ Len(input[1].response.hits) > 0

\* the service row of a hit that search returned
RowOf(hit) == input[1].response.hits[hit.id]

\* C17: whatever distances the rows carry, search does not fail, and every
\* hit it returns has a score in (0, 1] if its row has a distance and the
\* score None if it has none.
C17_ScoreInUnitInterval ==
    ServiceReturnedRows =>
        /\ ~ret.none
        /\ \A k \in 1..Len(ret.hits) :
               IF RowOf(ret.hits[k]).distance = <<>>
               THEN ret.hits[k].score = <<>>
               ELSE /\ ret.hits[k].score # <<>>
                    /\ ret.hits[k].score[1] > 0
                    /\ ret.hits[k].score[1] <= One

\* a row without distance came back with score None, a row at a positive
\* distance with a score below 1
C17_ScoredAndUnscoredHit ==
    /\ ServiceReturnedRows
    /\ ~ret.none
    /\ Len(ret.hits) = 2
    /\ RowOf(ret.hits[1]).distance = <<>>
    /\ ret.hits[1].score = <<>>
    /\ RowOf(ret.hits[2]).distance = <<One>>
    /\ ret.hits[2].score = << One \div 2 >>

\* the rows of the response that have an id
RowsWithId ==
    Pick(input[1].response.hits,
         {k \in 1..Len(input[1].response.hits) : input[1].response.hits[k].id # <<>>})

\* C18: search drops the rows that have no id without failing, returns the
\* others in the order of the service, at most `limit`, and returns None
\* when no hit is left.
C18_RowsWithoutIdDropped ==
    ServiceReturnedRows =>
        IF Len(RowsWithId) = 0 THEN ret.none
        ELSE /\ ~ret.none
             /\ Len(ret.hits) <= MaxHits
             /\ [k \in 1..Len(ret.hits) |-> <<ret.hits[k].id>>] = IdsOf(RowsWithId)

\* the first row had no id and the second row came back alone
C18_FirstRowDropped ==
    /\ ServiceReturnedRows
    /\ Len(input[1].response.hits) = 2
    /\ input[1].response.hits[1].id = <<>>
    /\ ~ret.none
    /\ Len(ret.hits) = 1
    /\ ret.hits[1].id = 2

(***************************************************************************)
(* query and split_file, and what search, query and split_file return for  *)
(* "nothing found" and for a failure.                                      *)
(***************************************************************************)
\* query(filter_expr=None, output_fields=None, limit=100)
query_limit == 100

\* VectorDB.query.  up: the client is there or connect() succeeds; q: what
\* client.query does.  none: query returned None; otherwise the rows.
query(up, q) ==
    IF ~up \/ q.raised THEN [none |-> TRUE, rows |-> <<>>]
    ELSE [none |-> FALSE, rows |-> q.rows]

\* the files of the model: file_name, and file_name without its extension
Files == {[file_name |-> "notes.md", file_context |-> "notes"],
          [file_name |-> "Intro.md", file_context |-> "Intro"]}

\* title_path.startswith(file_context); the words of the model are equal or
\* have no common prefix
StartsWith(path, word) == Len(path) > 0 /\ path[1] = word

\* the chunk split_file makes of a chunk of split_text
file_chunk(chunk, file) ==
    LET md == Put(Put(chunk.metadata, "source", file.file_name), "file_name", file.file_name)
    IN [text |-> chunk.text,
        metadata |->
            IF /\ "title_path" \in DOMAIN md
               /\ md["title_path"] # <<>>
               /\ ~StartsWith(md["title_path"], file.file_context)
            THEN Put(md, "full_context", <<file.file_context, Sep>> \o md["title_path"])
            ELSE md]

\* MarkdownSplitter.split_file.  exists: the file can be read; text: what
\* it holds.  It returns a list of chunks, always.
split_file(exists, file, text, size, overlap) ==
    IF ~exists THEN [none |-> FALSE, chunks |-> <<>>]
    ELSE LET chunks == split_text(text, size, overlap)
         IN [none |-> FALSE,
             chunks |-> [k \in 1..Len(chunks) |-> file_chunk(chunks[k], file)]]

\* the collection holds what earlier inserts left
InitResults ==
    /\ collection \in {<<>>, <<[id |-> 1, subject |-> "faq"]>>}
    /\ held = Range(IdsOf(collection))
    /\ last_id = [p \in Procs |-> 0]
    /\ returned = [p \in Procs |-> <<>>]
    /\ alloc = <<>>
    /\ ret = Ret("init", <<>>, FALSE, <<>>, TRUE)
    /\ calls = NoCall
    /\ InitRaceIdle /\ InitNoInput /\ InitNoSplit /\ InitNoApp

\* db.query()
Query(up, q) ==
    /\ ret.op = "init"
    /\ input' = << [via |-> "query", up |-> up, response |-> q] >>
    /\ ret' = [op |-> "query"] @@ query(up, q)
    /\ calls' = IF up THEN << Call("query", <<>>, IF q.raised THEN "raise" ELSE "ok") >>
                ELSE << Call("connect", <<>>, "raise") >>
    /\ UNCHANGED <<collection, last_id, held, returned, alloc,
                   raceVars, splitVars, appVars>>

\* MarkdownSplitter(ChunkSize, ChunkOverlap).split_file(file_path)
SplitFile(exists, file, text) ==
    /\ ret.op = "init"
    /\ input' = << [via |-> "split_file", exists |-> exists, file |-> file, text |-> text] >>
    /\ ret' = [op |-> "split_file"] @@ split_file(exists, file, text, ChunkSize, ChunkOverlap)
    /\ calls' = NoCall
    /\ UNCHANGED <<collection, last_id, held, returned, alloc,
                   raceVars, splitVars, appVars>>

NextResults ==
    \/ /\ ret.op = "init"
       /\ \E r \in SearchOutcomes(MaxHits) : Search(TRUE, r)
    \/ /\ ret.op = "init"
       /\ Search(FALSE, [kind |-> "raise", hits |-> <<>>])
    \/ /\ ret.op = "init"
       /\ \E up \in BOOLEAN, q \in QueryOutcomes(collection, query_limit) : Query(up, q)
    \/ /\ ret.op = "init"
       /\ \E file \in Files, text \in ResplitDocs : SplitFile(TRUE, file, text)
    \/ /\ ret.op = "init"
       /\ \E file \in Files : SplitFile(FALSE, file, <<>>)

SpecResults == InitResults /\ [][NextResults]_vars

\* what the last call returned
ReturnedValue == [f \in DOMAIN ret \ {"op"} |-> ret[f]]

\* what an operation returns when it failed: the store cannot be reached,
\* the file cannot be read
FailureValue(op) ==
    IF op = "search" THEN search(FALSE, [kind |-> "raise", hits |-> <<>>])
    ELSE IF op = "query" THEN query(FALSE, [raised |-> TRUE, rows |-> <<>>])
    ELSE split_file(FALSE, CHOOSE file \in Files : TRUE, <<>>, ChunkSize, ChunkOverlap)

\* the last call failed
Failed ==
    \/ /\ ret.op = "search"
       /\ \/ ~input[1].up
          \/ input[1].response.kind = "raise"
          \/ \E k \in 1..Len(input[1].response.hits) :
                 /\ input[1].response.hits[k].id # <<>>
                 /\ input[1].response.hits[k].distance # <<>>
                 /\ score_raises(input[1].response.hits[k].distance[1])
    \/ /\ ret.op = "query"
       /\ (~input[1].up \/ input[1].response.raised)
    \/ /\ ret.op = "split_file"
       /\ ~input[1].exists

\* the last call met its no-results condition: the service had no hit, the
\* query matched no row, the file gave no chunk
NoResults ==
    /\ ~Failed
    /\ \/ ret.op = "search" /\ Len(input[1].response.hits) = 0
       \/ ret.op = "query" /\ Len(input[1].response.rows) = 0
       \/ ret.op = "split_file" /\ Len(split_text(input[1].text, ChunkSize, ChunkOverlap)) = 0

\* C19: what search, query and split_file return when there is nothing to
\* return differs from what they return when they failed.
C19_NoResultsIsNotFailure ==
    /\ Failed => ReturnedValue = FailureValue(ret.op)
    /\ NoResults => ReturnedValue # FailureValue(ret.op)

\* a query that matched no row returned the empty list, not None
C19_EmptyQueryResult ==
    /\ ret.op = "query"
    /\ NoResults
    /\ ~ret.none
    /\ ret.rows = <<>>
    /\ FailureValue("query").none

(***************************************************************************)
(* The facade: VectorApp's construction, search_text and list_all_texts,   *)
(* with a store that may be out of reach.                                  *)
(***************************************************************************)
\* a collection row with all its fields
StoredRow(id, text, subject) == batch_item(id, text, VectorOf(text), subject, <<>>)

\* _load_existing_data: id_text_map after query(output_fields=["id", "text"])
\* returned r
load_existing_data(map, r) ==
    IF r.none \/ Len(r.rows) = 0 THEN map
    ELSE LET F[k \in 0..Len(r.rows)] ==
                 IF k = 0 THEN map
                 ELSE IF {"id", "text"} \subseteq DOMAIN r.rows[k]
                      THEN Put(F[k - 1], r.rows[k].id, r.rows[k].text)
                      ELSE F[k - 1]
         IN F[Len(r.rows)]

\* _init_database calls sys.exit(1)
init_database_exits(connected, created) == ~connected \/ ~created

\* search_text(query_text, limit).  embedded: text_to_vector gave a vector;
\* r: what client.search does
search_text(embedded, r) ==
    IF ~embedded THEN [none |-> TRUE, hits |-> <<>>]
    ELSE LET results == search(TRUE, r)
         IN IF results.none \/ Len(results.hits) = 0 THEN [none |-> TRUE, hits |-> <<>>]
            ELSE results

\* list_all_texts(): the (id, text, subject) of the rows query returned, the
\* empty list if it returned None or no row
list_all_texts(r) ==
    IF r.none \/ Len(r.rows) = 0 THEN <<>>
    ELSE LET with == Pick(r.rows, {k \in 1..Len(r.rows) : {"id", "text"} \subseteq DOMAIN r.rows[k]})
         IN [k \in 1..Len(with) |->
                <<with[k].id, with[k].text,
                  IF "subject" \in DOMAIN with[k] THEN with[k].subject ELSE "general">>]

InitFacade ==
    /\ collection \in {<<>>, <<StoredRow(1, "t1", "faq")>>,
                       <<StoredRow(1, "t1", "faq"), StoredRow(2, "t2", "general")>>}
    /\ held = Range(IdsOf(collection))
    /\ last_id = [p \in Procs |-> 0]
    /\ returned = [p \in Procs |-> <<>>]
    /\ alloc = <<>>
    /\ ret = Ret("init", <<>>, FALSE, <<>>, TRUE)
    /\ calls = NoCall
    /\ InitRaceIdle /\ InitNoInput /\ InitNoSplit /\ InitNoApp

\* VectorApp(db_path, collection_name).  connected: connect() returned True;
\* created: create_collection() returned True; q: what the query of
\* _load_existing_data does
NewVectorApp(connected, created, q) ==
    /\ ret.op = "init"
    /\ process = "running"
    /\ input' = << [via |-> "VectorApp", failed |-> ~connected \/ ~created] >>
    /\ IF init_database_exits(connected, created)
       THEN /\ process' = "exited"
            /\ ret' = [op |-> "VectorApp", none |-> TRUE, constructed |-> FALSE]
            /\ calls' = << Call(IF connected THEN "create_collection" ELSE "connect",
                                <<>>, "raise") >>
            /\ UNCHANGED id_text_map
       ELSE /\ process' = "running"
            /\ ret' = [op |-> "VectorApp", none |-> FALSE, constructed |-> TRUE]
            /\ calls' = << Call("query", <<>>, IF q.raised THEN "raise" ELSE "ok") >>
            /\ id_text_map' = load_existing_data(<<>>, query(connected, q))
    /\ UNCHANGED <<collection, last_id, held, returned, alloc, raceVars, splitVars, llm_chat>>

\* app.search_text(query_text, limit=1)
SearchText(embedded, r) ==
    /\ ret.op # "init"
    /\ process = "running"
    /\ input' = << [via |-> "search_text", failed |-> r.kind = "raise"] >>
    /\ ret' = [op |-> "search_text", constructed |-> TRUE] @@ search_text(embedded, r)
    /\ calls' = IF embedded THEN << Call("search", <<>>, r.kind) >> ELSE NoCall
    /\ UNCHANGED <<collection, last_id, held, returned, alloc,
                   raceVars, splitVars, appVars>>

\* app.list_all_texts()
ListAllTexts(q) ==
    /\ ret.op # "init"
    /\ process = "running"
    /\ input' = << [via |-> "list_all_texts", failed |-> q.raised] >>
    /\ ret' = [op |-> "list_all_texts", constructed |-> TRUE,
               none |-> FALSE, rows |-> list_all_texts(query(TRUE, q))]
    /\ calls' = << Call("query", <<>>, IF q.raised THEN "raise" ELSE "ok") >>
    /\ UNCHANGED <<collection, last_id, held, returned, alloc,
                   raceVars, splitVars, appVars>>

NextFacade ==
    \/ \E connected, created \in BOOLEAN, q \in QueryOutcomes(collection, query_limit) :
           NewVectorApp(connected, created, q)
    \/ /\ ret.op # "init"
       /\ \E embedded \in BOOLEAN, r \in SearchOutcomes(1) : SearchText(embedded, r)
    \/ \E q \in QueryOutcomes(collection, query_limit) : ListAllTexts(q)

SpecFacade == InitFacade /\ [][NextFacade]_vars

\* the last facade call returned a null or false value (the empty list of
\* list_all_texts is false)
NullOrFalse ==
    \/ ret.none
    \/ ret.op = "list_all_texts" /\ ret.rows = <<>>

\* C20: when the store cannot be reached or the collection cannot be
\* created, the facade's constructor and operations give their caller a
\* null or false result, and the process goes on.
C20_FailureSurfacedProcessRuns ==
    /\ process = "running"
    /\ (ret.op # "init" /\ input[1].failed) => (ret.constructed /\ NullOrFalse)

\* search_text on a store that went out of reach returned None and the
\* process still runs
C20_SearchFailureSurfaced ==
    /\ ret.op = "search_text"
    /\ input[1].failed
    /\ ret.none
    /\ process = "running"

(***************************************************************************)
(* Ingestion: VectorApp.process_markdown_file and CLI.split_markdown.      *)
(***************************************************************************)
\* json.dumps(metadata, ensure_ascii=False)
json_dumps(metadata) == <<"json", metadata>>

\* RecursiveCharacterTextSplitter(chunk_size, chunk_overlap) raises
\* ValueError: the library refuses an overlap larger than the chunk size
splitter_raises(size, overlap) == overlap > size

\* the files of the model, one of them not a Markdown file
IngestFiles == Files \cup {[file_name |-> "notes.txt", file_context |-> "notes"]}

\* file_path.lower().endswith('.md')
EndsWithMd(file) == file.file_name \in {"notes.md", "Intro.md"}

\* the documents ingested: their sections fit into one chunk
IngestDocs ==
    { <<>>,
      << BodyLine(<<"x">>) >>,
      << HeadingLine(1, <<"Intro">>) >>,
      << HeadingLine(1, <<"Intro">>), BodyLine(<<"x">>) >>,
      << HeadingLine(1, <<"Intro">>), BodyLine(<<"x">>),
         HeadingLine(2, <<"Details">>), BodyLine(<<"y">>) >> }

\* insert_markdown_chunks(chunks, subject): raised is FALSE, count and ids
\* are the pair it returns, ids = <<>> standing for None and <<l>> for a list
insert_markdown_chunks(coll, last, map, chunks, subject, embedded, scans, o) ==
    IF Len(chunks) = 0
    THEN [coll |-> coll, last_id |-> last, alloc |-> <<>>, map |-> map, calls |-> NoCall,
          raised |-> FALSE, count |-> 0, ids |-> << <<>> >>]
    ELSE LET texts == [k \in 1..Len(chunks) |-> chunks[k].text]
             metadatas == [k \in 1..Len(chunks) |->
                              [metadata |-> json_dumps(chunks[k].metadata)]]
             subjects == [k \in 1..Len(chunks) |-> subject]
             r == insert_batch_texts(coll, last, map, texts, <<subjects>>, <<metadatas>>,
                                     embedded, TRUE, scans, o)
         IN [raised |-> FALSE, count |-> Len(texts),
             ids |-> IF r.none THEN <<>> ELSE << r.ids >>] @@ r

\* process_markdown_file(file_path, subject, chunk_size, chunk_overlap).
\* subject = <<>> stands for None.  raised: the call ended in an exception.
process_markdown_file(coll, last, map, file, exists, text, subject, size, overlap, embedded, scans, o) ==
    IF splitter_raises(size, overlap)
    THEN [coll |-> coll, last_id |-> last, alloc |-> <<>>, map |-> map, calls |-> NoCall,
          raised |-> TRUE, count |-> 0, ids |-> <<>>]
    ELSE insert_markdown_chunks(coll, last, map,
                                split_file(exists, file, text, size, overlap).chunks,
                                IF subject = <<>> THEN file.file_context ELSE subject[1],
                                embedded, scans, o)

\* what the user types for a number: nothing, something that is no number,
\* or a number
Typed(kind, value) == [kind |-> kind, value |-> value]
NumberInputs ==
    {Typed("empty", 0), Typed("word", 0)} \cup {Typed("number", n) : n \in -1..ChunkSize}

\* what the user types for the chunk size and the overlap
SizeInputs ==
    {<<a, b>> \in NumberInputs \X NumberInputs :
        \/ "number" \notin {a.kind, b.kind}
        \/ a = Typed("number", ChunkSize)
        \/ a.kind = "number" /\ b.kind = "empty"}

\* int(s) raises ValueError
int_raises(s) == s.kind = "word"

\* int(s) if s else default
int_or_default(s, default) == IF s.kind = "empty" THEN default ELSE s.value

\* CLI.split_markdown stops before it calls process_markdown_file
cli_rejects(file, exists, size_input, overlap_input) ==
    \/ ~exists
    \/ ~EndsWithMd(file)
    \/ int_raises(size_input)
    \/ int_raises(overlap_input)
    \/ int_or_default(size_input, ChunkSize) <= 0
    \/ int_or_default(overlap_input, ChunkOverlap) < 0
    \/ int_or_default(overlap_input, ChunkOverlap) >= int_or_default(size_input, ChunkSize)

\* app.process_markdown_file(file_path, subject, chunk_size, chunk_overlap)
ProcessMarkdownFile(file, exists, text, subject, size, overlap, embedded, scans, o) ==
    \E r \in {process_markdown_file(collection, last_id[Writer], id_text_map, file, exists,
                                    text, subject, size, overlap, embedded, scans, o)} :
       /\ input' = << [via |-> "process_markdown_file", file |-> file, exists |-> exists,
                       text |-> text, size |-> size, overlap |-> overlap,
                       embedded |-> embedded, texts |-> <<>>] >>
       /\ collection' = r.coll
       /\ last_id' = [last_id EXCEPT ![Writer] = r.last_id]
       /\ alloc' = r.alloc
       /\ held' = held \cup Range(IdsOf(r.coll))
       /\ calls' = r.calls
       /\ id_text_map' = r.map
       /\ ret' = [op |-> "process_markdown_file", raised |-> r.raised,
                  count |-> r.count, ids |-> r.ids]
       /\ UNCHANGED <<returned, raceVars, splitVars, process, llm_chat>>

\* cli.split_markdown(file_path) with what the user types at its prompts
CliSplitMarkdown(file, exists, text, subject, size_input, overlap_input, embedded, scans, o) ==
    IF cli_rejects(file, exists, size_input, overlap_input)
    THEN /\ input' = << [via |-> "split_markdown", file |-> file, exists |-> exists,
                         text |-> text, size |-> size_input, overlap |-> overlap_input,
                         embedded |-> embedded, texts |-> <<>>] >>
         /\ ret' = [op |-> "split_markdown", raised |-> FALSE, count |-> 0, ids |-> <<>>]
         /\ calls' = NoCall
         /\ alloc' = <<>>
         /\ UNCHANGED <<collection, last_id, held, returned, raceVars, splitVars, appVars>>
    ELSE \E r \in {process_markdown_file(collection, last_id[Writer], id_text_map, file,
                                         exists, text, subject,
                                         int_or_default(size_input, ChunkSize),
                                         int_or_default(overlap_input, ChunkOverlap),
                                         embedded, scans, o)} :
            /\ input' = << [via |-> "split_markdown", file |-> file, exists |-> exists,
                            text |-> text, size |-> size_input, overlap |-> overlap_input,
                            embedded |-> embedded, texts |-> <<>>] >>
            /\ collection' = r.coll
            /\ last_id' = [last_id EXCEPT ![Writer] = r.last_id]
            /\ alloc' = r.alloc
            /\ held' = held \cup Range(IdsOf(r.coll))
            /\ calls' = r.calls
            /\ id_text_map' = r.map
            /\ ret' = [op |-> "split_markdown", raised |-> FALSE,
                       count |-> r.count, ids |-> r.ids]
            /\ UNCHANGED <<returned, raceVars, splitVars, process, llm_chat>>

\* app.insert_batch_texts([])
InsertNoTexts(subjects, scans, o) ==
    \E r \in {insert_batch_texts(collection, last_id[Writer], id_text_map, <<>>,
                                 subjects, <<>>, <<>>, TRUE, scans, o)} :
       /\ input' = << [via |-> "insert_batch_texts", texts |-> <<>>] >>
       /\ collection' = r.coll
       /\ last_id' = [last_id EXCEPT ![Writer] = r.last_id]
       /\ alloc' = r.alloc
       /\ held' = held \cup Range(IdsOf(r.coll))
       /\ calls' = r.calls
       /\ id_text_map' = r.map
       /\ ret' = [op |-> "insert_batch_texts", raised |-> FALSE, count |-> 0,
                  ids |-> IF r.none THEN <<>> ELSE << r.ids >>]
       /\ UNCHANGED <<returned, raceVars, splitVars, process, llm_chat>>

\* the chunk sizes and overlaps process_markdown_file is called with: the
\* defaults, an overlap equal to the size, an overlap above the size
IngestParameters ==
    {<<ChunkSize, ChunkOverlap>>, <<ChunkSize, ChunkSize>>, <<ChunkOverlap, ChunkSize>>}

NextIngest ==
    \/ /\ ret.op = "init"
       /\ \E file \in IngestFiles, exists \in BOOLEAN, text \in IngestDocs,
             subject \in {<<>>, <<"faq">>}, p \in IngestParameters,
             embedded \in [1..MaxBatch -> BOOLEAN],
             scans \in [1..MaxBatch -> ScanOutcomes(collection)],
             o \in BatchInsertOutcomes :
               ProcessMarkdownFile(file, exists, text, subject, p[1], p[2],
                                   embedded, scans, o)
    \/ /\ ret.op = "init"
       /\ \E file \in IngestFiles, exists \in BOOLEAN, text \in IngestDocs,
             typed \in SizeInputs,
             embedded \in [1..MaxBatch -> BOOLEAN],
             scans \in [1..MaxBatch -> ScanOutcomes(collection)],
             o \in BatchInsertOutcomes :
               CliSplitMarkdown(file, exists, text, <<>>, typed[1], typed[2],
                                embedded, scans, o)
    \/ /\ ret.op = "init"
       /\ \E subjects \in OptionalListsOf(Subjects),
             scans \in [1..MaxBatch -> ScanOutcomes(collection)],
             o \in BatchInsertOutcomes :
               InsertNoTexts(subjects, scans, o)

SpecIngest == InitBatch /\ [][NextIngest]_vars

\* the last call had an input that is to be rejected: a chunk size or
\* overlap out of range, a source that is no Markdown file, no texts
InvalidInput ==
    \/ /\ ret.op \in {"process_markdown_file", "split_markdown"}
       /\ \/ ~EndsWithMd(input[1].file)
          \/ /\ ret.op = "process_markdown_file"
             /\ (input[1].size <= 0 \/ input[1].overlap < 0
                   \/ input[1].overlap >= input[1].size)
          \/ /\ ret.op = "split_markdown"
             /\ ~int_raises(input[1].size)
             /\ ~int_raises(input[1].overlap)
             /\ LET size == int_or_default(input[1].size, ChunkSize)
                    overlap == int_or_default(input[1].overlap, ChunkOverlap)
                IN size <= 0 \/ overlap < 0 \/ overlap >= size
    \/ ret.op = "insert_batch_texts" /\ input[1].texts = <<>>

\* C21: a call whose chunk size or overlap is out of range, whose source is
\* no Markdown file or whose text list is empty issues no store call,
\* allocates no id and leaves the collection as it was.
C21_InvalidInputRejected ==
    [][InvalidInput' =>
          /\ calls' = NoCall
          /\ alloc' = <<>>
          /\ last_id' = last_id
          /\ collection' = collection]_vars

\* split_markdown turned away an overlap equal to the chunk size on an
\* existing Markdown file with content
C21_CliRejectedOverlap ==
    /\ ret.op = "split_markdown"
    /\ input[1].exists
    /\ EndsWithMd(input[1].file)
    /\ Len(input[1].text) = 2
    /\ input[1].size = Typed("number", ChunkSize)
    /\ input[1].overlap = Typed("number", ChunkSize)
    /\ calls = NoCall
    /\ collection = <<>>

\* a client call of the last handler raised
ClientRaised == \E k \in 1..Len(calls) : calls[k].result = "raise"

\* C22: when a call to the store client raises inside a handler, the
\* handler returns its failure value: delete_by_ids the list without the
\* ids of the batch that failed, clear_collection False.
C22_ClientFaultGivesFailureValue ==
    ClientRaised =>
        /\ ret.op = "delete_by_ids" =>
               \A k \in 1..Len(calls) :
                   calls[k].result = "raise" => Range(calls[k].pks) \cap Range(ret.ids) = {}
        /\ ret.op = "clear_collection" => ~ret.flag

\* delete_by_ids whose client.delete call raised returned the empty list
\* and left the records live
C22_FailedDeleteReturnedNothing ==
    /\ ret.op = "delete_by_ids"
    /\ ClientRaised
    /\ ret.ids = <<>>
    /\ Len(ret.arg) > 0
    /\ Range(ret.arg) \cap LiveIds # {}

\* C23: process_markdown_file returns (count, ids) with count = len(ids),
\* the number of chunks inserted and their ids, whatever happened to the
\* chunks; (0, []) when the file gave no chunk.
C23_CountIsNumberOfIds ==
    (ret.op = "process_markdown_file" /\ ~ret.raised) =>
        /\ ret.ids # <<>>
        /\ ret.count = Len(ret.ids[1])
        /\ Range(ret.ids[1]) \subseteq LiveIds

\* both chunks of a file were inserted: (2, [1, 2])
C23_AllChunksInserted ==
    /\ ret.op = "process_markdown_file"
    /\ ~ret.raised
    /\ ret.count = 2
    /\ ret.ids = << <<1, 2>> >>
    /\ LiveIds = {1, 2}

(***************************************************************************)
(* SpecRetry: a caller calls delete_by_ids with one list again and again,  *)
(* each client.delete call with any outcome.  The caller never stops       *)
(* retrying, which is the fairness condition.                              *)
(***************************************************************************)
RetryLengths == {0, 50, 100, 150, 250}
RetryLists == {IdList(n, d) : n \in RetryLengths, d \in BOOLEAN}

InitRetry ==
    /\ collection = SeededCollection
    /\ last_id = [p \in Procs |-> 0]
    /\ held = Range(IdsOf(collection))
    /\ returned = [p \in Procs |-> <<>>]
    /\ alloc = <<>>
    /\ ret = Ret("init", <<>>, FALSE, <<>>, TRUE)
    /\ calls = NoCall
    /\ InitRaceIdle
    /\ InitNoApp
    /\ InitNoSplit
    /\ input \in {<<l>> : l \in RetryLists}

NextRetry ==
    /\ \E out \in OutcomeSeqs(NumBatches(input[1])) : DeleteByIds(input[1], out)
    /\ UNCHANGED <<input, raceVars, splitVars, appVars>>

SpecRetry == InitRetry /\ [][NextRetry]_vars /\ WF_vars(NextRetry)

\* the ids of the list the caller retries
Listed == Range(input[1])

\* C24: retrying delete_by_ids with the same list never deletes a record
\* outside the list, re-deleting ids that are already gone leaves the
\* collection unchanged, and when every batch's call succeeds in some
\* attempt none of the listed ids remains live.
C24_RetryConverges ==
    /\ [][ /\ \A k \in 1..Len(collection) :
                 collection[k].id \notin Listed =>
                     \E j \in 1..Len(collection') : collection'[j] = collection[k]
           /\ LiveIds \cap Listed = {} => collection' = collection
           /\ Range(IdsOf(collection')) \subseteq LiveIds ]_vars
    /\ (\A k \in 1..3 :
           <>(k > NumBatches(input[1]) \/ (Len(calls) >= k /\ calls[k].result = "ok")))
       => <>[](LiveIds \cap Listed = {})

\* the list 1..250 is retried, the first batch's call raising this time,
\* and all listed records are already gone
C24_RetryAfterPartialFailure ==
    /\ ret.op = "delete_by_ids"
    /\ Len(ret.arg) = 250
    /\ calls[1].result = "raise"
    /\ LiveIds = {}

(***************************************************************************)
(* Properties of the last-seen-heading table and of the chunks of a        *)
(* section.                                                                *)
(***************************************************************************)
\* the metadata of a section without its empty values
TruthyMetadata(split) ==
    [key \in {x \in DOMAIN split.metadata : split.metadata[x] # <<>>} |-> split.metadata[key]]

\* split_text is about to process, or has just processed, section n
Processing(n) == split_pc = "loop" /\ pos = n /\ n <= Len(header_splits)

\* C25: when split_text processes a section whose own heading is at level
\* L, slot L of last_headers holds that heading afterwards, every slot
\* below it (level > L) is cleared and every slot above it (level < L)
\* keeps the value it had before the section.
C25_SlotsAfterSection ==
    [][ (Processing(pos) /\ pos' = pos + 1) =>
            LET metadata == TruthyMetadata(header_splits[pos])
                L == current_level_deepest(metadata)
            IN L # 0 =>
                  /\ last_headers'[L] = <<metadata[HeaderKey[L]]>>
                  /\ \A j \in 1..6 : j > L => last_headers'[j] = <<>>
                  /\ \A j \in 1..6 : j < L => last_headers'[j] = last_headers[j] ]_vars

\* a section under a level-2 heading alone was processed after one under a
\* level-1 heading: slot 1 kept, slot 2 set
C25_SecondLevelAfterFirst ==
    /\ split_pc = "loop"
    /\ pos = 3
    /\ DOMAIN TruthyMetadata(header_splits[1]) = {"header_1"}
    /\ DOMAIN TruthyMetadata(header_splits[2]) = {"header_2"}
    /\ last_headers[1] = <<header_splits[1].metadata["header_1"]>>
    /\ last_headers[2] = <<header_splits[2].metadata["header_2"]>>

\* the chunks the section in progress adds to final_chunks
NewChunks == SubSeq(final_chunks', Len(final_chunks) + 1, Len(final_chunks'))

\* parent_summary and title_path joined by ' > ', or title_path alone
ContextHead(metadata) ==
    IF "parent_summary" \in DOMAIN metadata
    THEN metadata["parent_summary"] \o <<Sep>> \o TitlePathOf(metadata)
    ELSE TitlePathOf(metadata)

\* C26: a section whose cleaned text is no longer than chunk_size gives
\* exactly one chunk with chunk_index 0; a longer one gives one chunk per
\* sub-split, in order, with chunk_index 0, 1, ... restarting for each
\* section; every chunk's context is 'parent_summary > title_path' (or
\* title_path without a parent_summary), a newline and the chunk's text.
C26_ChunksOfSection ==
    [][ (Processing(pos) /\ pos' = pos + 1) =>
            LET clean_content == clean_html_tags(header_splits[pos].page_content)
                sub_chunks == text_splitter_split_text(clean_content, ChunkSize, ChunkOverlap)
            IN /\ Len(final_chunks') >= Len(final_chunks)
               /\ SubSeq(final_chunks', 1, Len(final_chunks)) = final_chunks
               /\ Len(clean_content) <= ChunkSize =>
                      /\ Len(NewChunks) = 1
                      /\ NewChunks[1].text = clean_content
               /\ Len(clean_content) > ChunkSize =>
                      /\ Len(NewChunks) = Len(sub_chunks)
                      /\ \A i \in 1..Len(NewChunks) : NewChunks[i].text = sub_chunks[i]
               /\ \A i \in 1..Len(NewChunks) :
                      /\ NewChunks[i].metadata["chunk_index"] = i - 1
                      /\ NewChunks[i].metadata["context"] =
                             ContextHead(NewChunks[i].metadata) \o <<"\n">> \o NewChunks[i].text ]_vars

\* a section was split into several chunks, the next section starts at
\* chunk_index 0 again, and a chunk has a parent_summary in its context
C26_IndexRestarts ==
    /\ split_pc = "done"
    /\ \E k \in 1..(Len(final_chunks) - 1) :
            /\ MetadataOf(k)["chunk_index"] >= 1
            /\ MetadataOf(k + 1)["chunk_index"] = 0
    /\ \E k \in 1..Len(final_chunks) : "parent_summary" \in DOMAIN MetadataOf(k)

\* C27: the ids of one insert_batch call, all allocated before the batch
\* is written, are pairwise distinct, increasing in item order and
\* consecutive, and last_id of a process never decreases.
C27_BatchIdsConsecutive ==
    [][ /\ ret'.op = "insert_batch" =>
               /\ Len(alloc') = Len(ret'.arg)
               /\ \A j, k \in 1..Len(alloc') : j < k => alloc'[j] < alloc'[k]
               /\ \A k \in 2..Len(alloc') : alloc'[k] = alloc'[k - 1] + 1
        /\ ret'.op # "restart" => last_id'[Writer] >= last_id[Writer] ]_vars

\* a batch of two records whose insert failed, its ids are not handed out
\* again: the next batch got the ids after them
C27_IdsOfFailedBatchNotReused ==
    /\ ret.op = "insert_batch"
    /\ alloc = <<2, 3>>
    /\ LiveIds = {}
    /\ last_id[Writer] = 3

(***************************************************************************)
(* SpecChat: LLMChat(model_name) constructions in one process, the model   *)
(* loading or failing to load.                                             *)
(***************************************************************************)
MaxConstructions == 4
ModelNames == {"qwen2.5:1.5b", "llama3", "mistral"}
LoadOutcomes == {"ok", "raise"}

\* LLMChat.__new__: makes an object when _instance is None
LLMChat__new__(c) ==
    IF c._instance = 0
    THEN [c EXCEPT !._instance = c.objects + 1, !.objects = c.objects + 1]
    ELSE c

\* _init_llm, ChatOllama(model=self.model_name) returning or raising
_init_llm(c, o) ==
    [c EXCEPT !.llm = IF o = "ok" THEN c.model_name ELSE <<>>,
              !.loads = c.loads + 1]

\* an __init__ that does not look at _initialized
LLMChat__init__always(c, model_name, o) ==
    [_init_llm([c EXCEPT !.model_name = <<model_name>>, !.llm = <<>>], o)
        EXCEPT !._initialized = TRUE]

\* LLMChat.__init__ on the object _instance names
LLMChat__init__(c, model_name, o) ==
    IF c._initialized THEN c
    ELSE [_init_llm([c EXCEPT !.model_name = <<model_name>>, !.llm = <<>>], o)
             EXCEPT !._initialized = TRUE]

\* LLMChat(model_name): __new__, then __init__ on the object it returned
NewLLMChat(model_name, o) ==
    /\ Len(llm_chat.constructions) < MaxConstructions
    /\ \E c \in {LLMChat__init__(LLMChat__new__(llm_chat), model_name, o)} :
           llm_chat' = [c EXCEPT !.constructions =
                            Append(@, [model_name |-> model_name, instance |-> c._instance])]
    /\ UNCHANGED <<storeVars, deleteVars, raceVars, splitVars, id_text_map, process>>

NextChat == \E model_name \in ModelNames, o \in LoadOutcomes : NewLLMChat(model_name, o)

SpecChat == Init /\ [][NextChat]_vars

\* C28: every LLMChat(model_name) construction of a process returns the
\* same instance and _init_llm runs at most once, whatever the model names
\* and whether or not the first load succeeded.
C28_OneInstanceOneLoad ==
    /\ \A j, k \in 1..Len(llm_chat.constructions) :
           /\ llm_chat.constructions[j].instance # 0
           /\ llm_chat.constructions[j].instance = llm_chat.constructions[k].instance
    /\ llm_chat.loads <= 1
    /\ llm_chat.constructions # <<>> => llm_chat.loads = 1

\* two constructions with different model names after a first load that
\* failed
C28_SecondNameAfterFailedLoad ==
    /\ Len(llm_chat.constructions) >= 2
    /\ llm_chat.constructions[1].model_name # llm_chat.constructions[2].model_name
    /\ llm_chat.llm = <<>>
    /\ llm_chat.loads = 1

(***************************************************************************)
(* SpecApp: one VectorApp, the only writer of its collection, from its     *)
(* construction on: insert_text, insert_batch_texts, process_markdown_file,*)
(* delete_by_id and clear_all in any order, every store call and every     *)
(* embedding with any outcome.                                             *)
(***************************************************************************)
MaxAppId == 2

\* the texts of the model are sequences of words, as the chunks of a file
AppText(k) == <<TextAt[k]>>

\* insert_text(text, subject): the collection, last_id and id_text_map
\* afterwards and the id returned (none: it returned None)
insert_text(coll, last, map, text, subject, embedded, scan, o) ==
    IF ~embedded
    THEN [coll |-> coll, last_id |-> last, alloc |-> <<>>, map |-> map,
          none |-> TRUE, ids |-> <<>>, calls |-> NoCall]
    ELSE LET id == _generate_id(last, scan)
             data == << batch_item(id, text, VectorOf(text), subject, <<>>) >>
         IN [coll |-> client_insert(coll, data, o), last_id |-> id, alloc |-> <<id>>,
             map |-> IF o = "ok" THEN Put(map, id, text) ELSE map,
             none |-> o # "ok", ids |-> IF o = "ok" THEN <<id>> ELSE <<>>,
             calls |-> ScanCalls(scan) \o << Call("insert", <<>>, o) >>]

\* id_text_map.pop(doc_id)
Pop(map, doc_id) == [x \in DOMAIN map \ {doc_id} |-> map[x]]

\* a delete_by_id that forgets the id whatever the store reports
delete_by_id_always_pops(coll, map, doc_id, o) ==
    IF doc_id \notin DOMAIN map
    THEN [coll |-> coll, map |-> map, flag |-> FALSE, calls |-> NoCall]
    ELSE LET d == IF doc_id = 0 THEN [coll |-> coll, deleted |-> <<>>, calls |-> NoCall]
                  ELSE delete_by_ids(coll, <<doc_id>>, <<o>>)
         IN [coll |-> d.coll, map |-> Pop(map, doc_id), flag |-> TRUE, calls |-> d.calls]

\* VectorApp.delete_by_id(doc_id), o the outcome of the client.delete call.
\* delete_by_ids gets the bare id: `if not ids` returns [] for the id 0,
\* every other id becomes the list [doc_id].
delete_by_id(coll, map, doc_id, o) ==
    IF doc_id \notin DOMAIN map
    THEN [coll |-> coll, map |-> map, flag |-> FALSE, calls |-> NoCall]
    ELSE LET d == IF doc_id = 0 THEN [coll |-> coll, deleted |-> <<>>, calls |-> NoCall]
                  ELSE delete_by_ids(coll, <<doc_id>>, <<o>>)
         IN [coll |-> d.coll,
             map |-> IF Len(d.deleted) > 0 THEN Pop(map, doc_id) ELSE map,
             flag |-> Len(d.deleted) > 0,
             calls |-> d.calls]

\* clear_all(subject): c is what clear_collection did, reload the outcome
\* of the query that loads the map again after a subject was cleared
clear_all(map, subject, c, reload) ==
    IF c.flag /\ subject = <<>> THEN <<>>
    ELSE IF c.flag THEN load_existing_data(<<>>, query(TRUE, reload))
    ELSE map

InitApp ==
    /\ collection \in {<<>>, <<StoredRow(1, AppText(1), "faq")>>}
    /\ held = Range(IdsOf(collection))
    /\ last_id = [p \in Procs |-> 0]
    /\ returned = [p \in Procs |-> <<>>]
    /\ alloc = <<>>
    /\ ret = Ret("init", <<>>, FALSE, <<>>, TRUE)
    /\ calls = NoCall
    /\ InitRaceIdle /\ InitNoInput /\ InitNoSplit /\ InitNoApp

\* the VectorApp is there
Constructed == ret.op # "init" /\ process = "running"

\* what an inserting call leaves: r is the result of its operator
Inserted(op, arg, r) ==
    /\ r.last_id <= MaxAppId
    /\ collection' = r.coll
    /\ last_id' = [last_id EXCEPT ![Writer] = r.last_id]
    /\ alloc' = r.alloc
    /\ held' = held \cup Range(IdsOf(r.coll))
    /\ id_text_map' = r.map
    /\ ret' = Ret(op, arg, r.none, r.ids, ~r.none)
    /\ calls' = r.calls
    /\ UNCHANGED <<returned, input, raceVars, splitVars, process, llm_chat>>

AppInsertText(text, subject, embedded, scan, o) ==
    \E r \in {insert_text(collection, last_id[Writer], id_text_map, text, subject,
                          embedded, scan, o)} :
        Inserted("insert_text", <<text>>, r)

AppInsertBatch(n, embedded, scans, o) ==
    \E r \in {insert_batch_texts(collection, last_id[Writer], id_text_map,
                                 [k \in 1..n |-> AppText(k + 2)], <<>>, <<>>,
                                 embedded, TRUE, scans, o)} :
        Inserted("insert_batch_texts", <<n>>, r)

AppProcessMarkdownFile(file, text, embedded, scans, o) ==
    \E r \in {process_markdown_file(collection, last_id[Writer], id_text_map, file, TRUE,
                                    text, <<>>, ChunkSize, ChunkOverlap,
                                    embedded, scans, o)} :
        Inserted("process_markdown_file", <<>>, [none |-> r.ids = <<>>] @@ r)

AppDeleteById(doc_id, o) ==
    \E r \in {delete_by_id(collection, id_text_map, doc_id, o)} :
        /\ collection' = r.coll
        /\ id_text_map' = r.map
        /\ ret' = Ret("delete_by_id", <<doc_id>>, FALSE, <<>>, r.flag)
        /\ calls' = r.calls
        /\ alloc' = <<>>
        /\ UNCHANGED <<last_id, held, returned, input, raceVars, splitVars, process, llm_chat>>

AppClearAll(subject, q, out) ==
    \E c \in {clear_collection(collection, subject, q, out)} :
        \E reload \in QueryOutcomes(c.coll, query_limit) :
            /\ collection' = c.coll
            /\ id_text_map' = clear_all(id_text_map, subject, c, reload)
            /\ ret' = Ret("clear_all", subject, FALSE, <<>>, c.flag)
            /\ calls' = c.calls
            /\ alloc' = <<>>
            /\ UNCHANGED <<last_id, held, returned, input, raceVars, splitVars, process, llm_chat>>

\* the scans of the _generate_id calls of one batch, all with one outcome
BatchScans == {[k \in 1..MaxBatch |-> scan] : scan \in ScanOutcomes(collection)}

\* the file SpecApp ingests, without a chunk or with one
AppFile == [file_name |-> "notes.md", file_context |-> "notes"]
AppDocs == { <<>>, << HeadingLine(1, <<"Intro">>), BodyLine(<<"x">>) >> }

NextApp ==
    \/ \E connected, created \in BOOLEAN, q \in QueryOutcomes(collection, query_limit) :
           NewVectorApp(connected, created, q)
    \/ /\ Constructed
       /\ \E embedded \in BOOLEAN, scan \in ScanOutcomes(collection), o \in InsertOutcomes :
              AppInsertText(AppText(3), "faq", embedded, scan, o)
    \/ /\ Constructed
       /\ \E n \in 0..MaxBatch, scans \in BatchScans, o \in BatchInsertOutcomes :
              \E embedded \in [1..n -> BOOLEAN] : AppInsertBatch(n, embedded, scans, o)
    \/ /\ Constructed
       /\ \E text \in AppDocs, embedded \in [1..MaxBatch -> BOOLEAN],
             scans \in BatchScans, o \in BatchInsertOutcomes :
              AppProcessMarkdownFile(AppFile, text, embedded, scans, o)
    \/ /\ Constructed
       /\ \E doc_id \in 0..MaxAppId, o \in DeleteOutcomes : AppDeleteById(doc_id, o)
    \/ /\ Constructed
       /\ \E subject \in {<<>>} \cup {<<s>> : s \in Subjects},
             q \in QueryOutcomes(collection, clear_scan_limit) :
              \E out \in OutcomeSeqs(NumBatches(ClearIds(q.rows, subject))) :
                  AppClearAll(subject, q, out)

SpecApp == InitApp /\ [][NextApp]_vars

\* C29: once the VectorApp is constructed, and after each of its inserting,
\* deleting and clearing calls, whatever its store calls did, the keys of
\* id_text_map are the ids of the live records and each key maps to the
\* text of its record.
C29_MapMirrorsCollection ==
    Constructed =>
        /\ DOMAIN id_text_map = LiveIds
        /\ \A k \in 1..Len(collection) :
               collection[k].id \in DOMAIN id_text_map
                   => id_text_map[collection[k].id] = collection[k].text

\* records were inserted through the facade and clear_all removed them all
C29_ClearedAfterInserts ==
    /\ Constructed
    /\ ret.op = "clear_all"
    /\ ret.flag
    /\ collection = <<>>
    /\ DOMAIN id_text_map = {}
    /\ Cardinality(held) >= 2
    /\ last_id[Writer] >= 2

\* the last delete_by_id call found its id in the map
KnownId == ret'.arg[1] \in DOMAIN id_text_map
\* the store reported the delete of the last call as done
DeleteReported == \E k \in 1..Len(calls') : calls'[k].result = "ok"

\* C30: delete_by_id with an id that is no key of id_text_map returns False,
\* issues no store call and leaves collection and map as they are; with a
\* known id the entry is removed exactly when the store reported the
\* delete as done, and the call returns True exactly then.
C30_DeleteById ==
    [][ ret'.op = "delete_by_id" =>
            /\ ~KnownId =>
                   /\ ~ret'.flag
                   /\ calls' = NoCall
                   /\ collection' = collection
                   /\ id_text_map' = id_text_map
            /\ KnownId =>
                   /\ ret'.flag <=> DeleteReported
                   /\ (ret'.arg[1] \notin DOMAIN id_text_map') <=> DeleteReported
                   /\ \A x \in DOMAIN id_text_map \ {ret'.arg[1]} :
                          x \in DOMAIN id_text_map' /\ id_text_map'[x] = id_text_map[x] ]_vars

\* a known id was deleted: the call returned True and the id is in neither
\* the map nor the collection
C30_KnownIdDeleted ==
    /\ ret.op = "delete_by_id"
    /\ ret.flag
    /\ ret.arg[1] \in held
    /\ ret.arg[1] \notin DOMAIN id_text_map
    /\ ret.arg[1] \notin LiveIds

=============================================================================
